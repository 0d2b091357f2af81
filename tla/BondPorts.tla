--------------------------- MODULE BondPorts ---------------------------
(* The skills nic_down and nic_up on one node.  Each message is handled by   *)
(* a goroutine of its own; a command reads the bonds over one SSH session,   *)
(* decides on what it read, and acts over a second session.  Links fail and  *)
(* recover, and other commands act, between the two.                         *)
EXTENDS Integers, Sequences, FiniteSets, Functions

CONSTANTS
    Members,    \* the bonds, in the order grep reads their files: each the
                \* sequence of its ports
    Commands,   \* commands handled at the same time
    NotAPort    \* an interface that is in no bond

Bonds      == DOMAIN Members
PortsOf(b) == Range(Members[b])
Ports      == UNION {PortsOf(b) : b \in Bonds}
BondOf(p)  == CHOOSE b \in Bonds : p \in PortsOf(b)
NoBond     == 0

ASSUME MembersAssumption ==
    /\ \A b \in Bonds : IsInjective(Members[b])
    /\ \A b, c \in Bonds : b # c => PortsOf(b) \cap PortsOf(c) = {}
    /\ NotAPort \notin Ports
    /\ Members \in Seq(Seq(Ports))
    /\ IsFiniteSet(Commands)

Ops == {"down", "up"}
Req == [op : Ops, eth : Ports \cup {NotAPort}, yes : BOOLEAN]

VARIABLES
    enabled,    \* the ports that are administratively up
    linked,     \* the ports whose link is good
    pc,         \* per command: where it is
    req,        \* per command: what was asked, once it has been asked
    taken,      \* history: the ports nic_down took down that nobody has raised
    lost        \* history: the commands whose bond has lost a link since they
                \* read it

vars == <<enabled, linked, pc, req, taken, lost>>

NoReq == [op |-> "up", eth |-> NotAPort, yes |-> FALSE]

TypeOK ==
    /\ enabled \subseteq Ports /\ linked \subseteq Ports
    /\ pc \in [Commands -> {"idle", "probe", "execute"}]
    /\ req \in [Commands -> Req]
    /\ taken \subseteq Ports
    /\ lost \subseteq Commands

Init ==
    /\ enabled \in SUBSET Ports /\ linked \in SUBSET Ports
    /\ pc = [c \in Commands |-> "idle"]
    /\ req = [c \in Commands |-> NoReq]
    /\ taken = {} /\ lost = {}

\* The ports that carry traffic: their MII status is up.
Live == enabled \cap linked
--------------------------------------------------------------------------
(* What grep prints and what is read from it. *)

Line(b, key, val)  == [bond |-> b, key |-> key, val |-> val]
Status(isUp)       == IF isUp THEN "up" ELSE "down"

\* The lines of one file: the bond's own status precedes its ports, two lines for each.
BondLines(b) ==
    [k \in 1 .. 2 * Len(Members[b]) + 1 |->
        LET p == Members[b][k \div 2] IN
        IF k = 1 THEN Line(b, "MII Status", Status(PortsOf(b) \cap Live # {}))
        ELSE IF k % 2 = 0 THEN Line(b, "Slave Interface", p)
        ELSE Line(b, "MII Status", Status(p \in Live))]

Probed ==
    LET lines[b \in 0 .. Len(Members)] ==
            IF b = 0 THEN <<>> ELSE lines[b - 1] \o BondLines(b)
    IN  lines[Len(Members)]

\* The port that the next status belongs to is the last one read.
SetStatus(s, val) ==
    [s EXCEPT !.slaves[s.current][Len(s.slaves[s.current])].mii = val]

AddSlave(s, line) ==
    [slaves  |-> [s.slaves EXCEPT ![line.bond] = Append(@, [name |-> line.val, mii |-> ""])],
     current |-> line.bond]

\* Mutant of ReadLine: a bond's own status goes to the last port of the bond before it.
ReadLineAnyBond(s, line) ==
    CASE line.key = "Slave Interface" -> AddSlave(s, line)
      [] line.key = "MII Status" /\ s.current # NoBond -> SetStatus(s, line.val)
      [] OTHER -> s

ReadLine(s, line) ==
    CASE line.key = "Slave Interface" -> AddSlave(s, line)
      [] line.key = "MII Status" /\ s.current = line.bond -> SetStatus(s, line.val)
      [] OTHER -> s

ReadLines(s, lines) ==
    LET read[i \in 0 .. Len(lines)] == IF i = 0 THEN s ELSE ReadLine(read[i - 1], lines[i])
    IN  read[Len(lines)]

NothingRead == [slaves |-> [b \in Bonds |-> << >>], current |-> NoBond]

parseBonds(lines) == ReadLines(NothingRead, lines).slaves

\* The slaves of the bond that eth is in; none if it is in no bond.
findBondForSlave(lines, eth) ==
    LET bonds == parseBonds(lines)
        own   == {b \in Bonds : \E s \in Range(bonds[b]) : s.name = eth}
    IN  UNION {Range(bonds[b]) : b \in own}
--------------------------------------------------------------------------
(* The environment. *)

\* The commands that have read bond b and not acted on it: a link it loses now
\* they do not know of.
Unaware(b) == {c \in Commands : pc[c] = "execute" /\ req[c].eth \in PortsOf(b)}

LinkFails(p) ==
    /\ p \in linked
    /\ linked' = linked \ {p}
    /\ lost' = lost \cup Unaware(BondOf(p))
    /\ UNCHANGED <<enabled, pc, req, taken>>

LinkRecovers(p) ==
    /\ p \notin linked
    /\ linked' = linked \cup {p}
    /\ UNCHANGED <<enabled, pc, req, taken, lost>>
--------------------------------------------------------------------------
(* The commands. *)

\* A message for one node and a legal interface name; any other is answered
\* before a session is opened.
Ask(c) ==
    /\ pc[c] = "idle"
    /\ pc' = [pc EXCEPT ![c] = "probe"]
    /\ \E r \in Req : req' = [req EXCEPT ![c] = r]
    /\ UNCHANGED <<enabled, linked, taken, lost>>

Over(c) ==
    /\ pc'   = [pc EXCEPT ![c] = "idle"]
    /\ req'  = [req EXCEPT ![c] = NoReq]
    /\ lost' = lost \ {c}

\* A session fails: nothing is read, or nothing is done.
SessionFails(c) ==
    /\ pc[c] \in {"probe", "execute"}
    /\ Over(c)
    /\ UNCHANGED <<enabled, linked, taken>>

\* Mutant of DownAllowed: one good port is enough.
DownAllowedSome(slaves) == \E s \in slaves : s.mii = "up"

\* The port is in a bond, and all ports of the bond are up.
DownAllowed(slaves) == slaves # {} /\ \A s \in slaves : s.mii = "up"

\* Mutant of UpAllowed: any interface is raised.
UpAllowedAlways(slaves) == TRUE

\* nic_up only asks that the port is in a bond.
UpAllowed(slaves) == slaves # {}

\* The answer is a refusal or, without --yes, a preview; or the command goes on.
Decide(c, allowed) ==
    /\ pc[c] = "probe"
    /\ IF allowed /\ req[c].yes
       THEN pc' = [pc EXCEPT ![c] = "execute"] /\ UNCHANGED <<req, lost>>
       ELSE Over(c)
    /\ UNCHANGED <<enabled, linked, taken>>

NICDownProbe(c) ==
    req[c].op = "down" /\ Decide(c, DownAllowed(findBondForSlave(Probed, req[c].eth)))

NICUpProbe(c) ==
    req[c].op = "up" /\ Decide(c, UpAllowed(findBondForSlave(Probed, req[c].eth)))

\* ip link set down.  The session may still fail after it: the answer is an
\* error then, and the port is down all the same.
NICDownExecute(c) ==
    LET eth == req[c].eth IN
    /\ pc[c] = "execute" /\ req[c].op = "down"
    /\ enabled' = enabled \ {eth}
    /\ taken' = taken \cup {eth}
    /\ pc'   = [pc EXCEPT ![c] = "idle"]
    /\ req'  = [req EXCEPT ![c] = NoReq]
    /\ lost' = (lost \cup IF eth \in Live THEN Unaware(BondOf(eth)) ELSE {}) \ {c}
    /\ UNCHANGED linked

NICUpExecute(c) ==
    LET eth == req[c].eth IN
    /\ pc[c] = "execute" /\ req[c].op = "up"
    /\ enabled' = enabled \cup {eth}
    /\ taken' = taken \ {eth}
    /\ Over(c)
    /\ UNCHANGED linked

Command(c) ==
    \/ Ask(c)            \/ SessionFails(c)
    \/ NICDownProbe(c)   \/ NICUpProbe(c)
    \/ NICDownExecute(c) \/ NICUpExecute(c)

Next ==
    \/ \E p \in Ports : LinkFails(p) \/ LinkRecovers(p)
    \/ \E c \in Commands : Command(c)

Spec == Init /\ [][Next]_vars
--------------------------------------------------------------------------
(* Properties. *)

\* A command takes the last good link of a bond down only if the bond has no
\* other port, or has lost a link since the command read it: no status is read
\* for the wrong port or the wrong bond (builtin.go:476-520).
LastLinkGuarded ==
    [][\A c \in Commands : \A b \in Bonds :
          /\ NICDownExecute(c) /\ req[c].eth \in PortsOf(b)
          /\ PortsOf(b) \cap Live # {} /\ PortsOf(b) \cap Live' = {}
          => Cardinality(PortsOf(b)) = 1 \/ c \in lost]_vars

\* The commands that are about to take a port of bond b down.
Pending(b) == {c \in Unaware(b) : req[c].op = "down"}

\* The bot has at most as many ports of a bond down as it handles commands at
\* once, those it is about to take down included: one command after the other
\* never has two ports of a bond down, whatever links fail and come back
\* (builtin.go:438-441).
TakenBounded ==
    \A b \in Bonds :
        Cardinality(taken \cap PortsOf(b)) + Cardinality(Pending(b)) <= Cardinality(Commands)

\* What README.md says of nic down: it never has all the ports of a bond with
\* several ports down.
NotAllTaken ==
    \A b \in Bonds : Cardinality(PortsOf(b)) > 1 => ~(PortsOf(b) \subseteq taken)
==========================================================================
