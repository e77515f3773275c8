---------------------------- MODULE MCPhotoFrame ----------------------------
(* A photo frame with one or two servers and a few commands and photos.    *)
EXTENDS PhotoFrame

CONSTANTS here, there

HereOnly == {here}
HereAndThere == {here, there}
CacheCommands == {"refetch", "clear"}
MoveThere == {there}

=============================================================================
