------------------------------- MODULE Leases -------------------------------
(* The DHCP server of the setup hotspot (src/os/src/net/dhcp.rs and        *)
(* src/proto/src/dhcp.rs) and the phones it serves.  Broadcast datagrams   *)
(* may be lost, repeated and overtaken: all that was sent stays on air.    *)
EXTENDS Integers, Sequences, FiniteSets

CONSTANTS
  Phones,    \* MAC addresses
  TableSize, \* CLIENTS: rows of the server's table
  Unleased

ASSUME LeasesAssumption == TableSize \in Nat \ {0} /\ Unleased \notin Nat

VARIABLES
  macs,    \* the server's table, in order of appearance
  air,     \* datagrams sent
  lease    \* the address each phone took, or Unleased

leaseVars == <<macs, air, lease>>

Rows == 1 .. TableSize
FirstHost == 2                         \* 192.168.4.2: the Sprig is .1
Ask(kind, p) == [kind |-> kind, mac |-> p]
Reply(kind, p, host) == [kind |-> kind, mac |-> p, host |-> host]
Asks == [kind : {"discover", "request", "other"}, mac : Phones]
Replies4(p) == [kind : {"offer", "ack"}, mac : {p}, host : {FirstHost + r - 1 : r \in Rows}]

(* Variant: every message is a new client. *)
AlwaysNewRow(p) ==
  IF Len(macs) < TableSize THEN [table |-> Append(macs, p), row |-> Len(macs) + 1]
  ELSE [table |-> macs, row |-> 1]

(* A known client keeps its row; a new one takes the next; with the table  *)
(* full, the first row.                                                    *)
RowOf(p) ==
  IF \E r \in DOMAIN macs : macs[r] = p
    THEN [table |-> macs, row |-> CHOOSE r \in DOMAIN macs : macs[r] = p]
  ELSE IF Len(macs) < TableSize
    THEN [table |-> Append(macs, p), row |-> Len(macs) + 1]
  ELSE [table |-> macs, row |-> 1]

(* serve: DISCOVER is answered with an OFFER, REQUEST with an ACK, and     *)
(* anything else only takes its row.                                       *)
Serve ==
  \E m \in air \cap Asks :
    LET found == RowOf(m.mac)
        host == FirstHost + found.row - 1
    IN /\ macs' = found.table
       /\ air' = air \cup CASE m.kind = "discover" -> {Reply("offer", m.mac, host)}
                            [] m.kind = "request" -> {Reply("ack", m.mac, host)}
                            [] OTHER -> {}
       /\ UNCHANGED lease

(* A phone asks, and asks for the address it was offered. *)
PhoneAsks ==
  \E p \in Phones :
    /\ \/ air' = air \cup {Ask("discover", p)}
       \/ air' = air \cup {Ask("other", p)}
       \/ \E o \in air \cap Replies4(p) : o.kind = "offer" /\ air' = air \cup {Ask("request", p)}
    /\ UNCHANGED <<macs, lease>>

(* It takes the address of the acknowledgement. *)
PhoneTakes ==
  \E p \in Phones : \E a \in air \cap Replies4(p) :
    /\ a.kind = "ack"
    /\ lease' = [lease EXCEPT ![p] = a.host]
    /\ UNCHANGED <<macs, air>>

LeasesInit ==
  /\ macs = <<>>
  /\ air = {}
  /\ lease = [p \in Phones |-> Unleased]

LeasesNext == Serve \/ PhoneAsks \/ PhoneTakes

LeasesSpec == LeasesInit /\ [][LeasesNext]_leaseVars

-----------------------------------------------------------------------------
LeasesTypeOK ==
  /\ macs \in Seq(Phones) /\ Len(macs) <= TableSize
  /\ air \subseteq Asks \cup UNION {Replies4(p) : p \in Phones}
  /\ lease \in [Phones -> {FirstHost + r - 1 : r \in Rows} \cup {Unleased}]

(* Two phones of the table never share an address, and a phone keeps the   *)
(* one it was first offered, whatever is lost, repeated or overtaken.      *)
LeasesDiffer ==
  /\ \A r, s \in DOMAIN macs :
       lease[macs[r]] # Unleased /\ lease[macs[r]] = lease[macs[s]] => r = s
  /\ \A r \in DOMAIN macs : \A a \in air \cap Replies4(macs[r]) : a.host = FirstHost + r - 1

=============================================================================
