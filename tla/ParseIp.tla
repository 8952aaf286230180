------------------------------ MODULE ParseIp ------------------------------
(***************************************************************************)
(* libtask/net.c: parseip and netlookup.  parseip reads a name component   *)
(* by component, each with the dot after it if there is one.  A component  *)
(* is a number in any notation of strtoul, or empty, or something else; a  *)
(* last one has a dot or is not empty, so a dot at the end of a name adds  *)
(* none to it.                                                             *)
(***************************************************************************)
EXTENDS Integers, Sequences

CONSTANTS
  Components,  \* what a name is made of: [kind, wraps, x]
  MaxName,     \* components of a name
  Hosts,       \* addresses that gethostbyname may answer
  Unset        \* a byte that was never set, or no address

\* x is what is left of the result of strtoul in an int: of nothing, 0.
ASSUME ParseIpAssumption ==
  /\ \A c \in Components :
       /\ c.kind \in {"number", "empty", "other"} /\ c.wraps \in BOOLEAN /\ c.x \in Int
       /\ c.kind = "empty" => ~c.wraps /\ c.x = 0
  /\ MaxName \in Nat
  /\ Unset \notin Seq(0 .. 255)

VARIABLES
  name,   \* history: the components read
  addr,   \* the bytes stored, Unset once parseip returned -1
  ip      \* what netlookup stored, Unset before and if it returned -1

parseVars == <<name, addr, ip>>

ParseInit == name = << >> /\ addr = << >> /\ ip = Unset

\* One pass of the loop, which ends after four bytes; the rest of the name is
\* not looked at.  What ends at a dot or the end of the name is accepted,
\* whether or not strtoul found a digit in it.
parseipLoop(c) ==
  /\ ip = Unset /\ Len(name) < MaxName
  /\ name' = Append(name, c)
  /\ addr' = IF addr = Unset \/ Len(addr) = 4 THEN addr
             ELSE IF c.kind # "other" /\ c.x \in 0 .. 255 THEN Append(addr, c.x) ELSE Unset
  /\ UNCHANGED ip

CLASS(a) == a[1] \div 64

\* Fault: the bytes are moved in the other order.
spread_Forwards(a) ==
  CASE CLASS(a) < 2 /\ Len(a) = 3 -> <<a[1], 0, a[2], a[2]>>
    [] CLASS(a) < 2 /\ Len(a) = 2 -> <<a[1], 0, 0, a[2]>>
    [] CLASS(a) = 2 /\ Len(a) = 3 -> <<a[1], a[2], 0, a[3]>>
    [] Len(a) = 4 -> a
    [] OTHER -> Unset

\* The bytes moved to where their class has them; of other classes nothing is
\* checked and nothing filled in.
spread(a) ==
  CASE CLASS(a) < 2 /\ Len(a) = 3 -> <<a[1], 0, a[2], a[3]>>
    [] CLASS(a) < 2 /\ Len(a) = 2 -> <<a[1], 0, 0, a[2]>>
    [] CLASS(a) = 2 /\ Len(a) = 3 -> <<a[1], a[2], 0, a[3]>>
    [] CLASS(a) = 3 -> [i \in 1 .. 4 |-> IF i <= Len(a) THEN a[i] ELSE Unset]
    [] CLASS(a) < 3 /\ Len(a) = 4 -> a
    [] OTHER -> Unset

\* What parseip may store, Unset if it returns -1.  Of the empty name it takes
\* the class of a byte that was never set.
parseip == IF addr = Unset THEN {Unset}
           ELSE IF addr = << >> THEN {Unset, [i \in 1 .. 4 |-> Unset]}
           ELSE {spread(addr)}

\* netlookup asks the resolver if parseip returned -1.
netlookup ==
  /\ ip = Unset
  /\ ip' \in (parseip \ {Unset}) \cup (IF Unset \in parseip THEN Hosts ELSE {})
  /\ UNCHANGED <<name, addr>>

ParseNext == netlookup \/ \E c \in Components : parseipLoop(c)

ParseSpec == ParseInit /\ [][ParseNext]_parseVars

-----------------------------------------------------------------------------

\* A component that stands for a byte; the empty one stands for 0.
IsByte(c) == c.kind # "other" /\ ~c.wraps /\ c.x \in 0 .. 255

\* The bytes of an address that name the network, by its first byte.
Network(b) == IF b < 128 THEN 1 ELSE IF b < 192 THEN 2 ELSE 3

\* An address gives the bytes of the network and one or more of the host.
IsAddress ==
  /\ Len(name) \in 2 .. 4
  /\ \A i \in DOMAIN name : IsByte(name[i])
  /\ Len(name) > Network(name[1].x)

\* An address in dots stands for its network followed by its host, the host
\* numbered from the right, with 0 for an empty component, so that ".." is
\* 0.0.0.0 (parseip's order of moves and tests); and what has a component that
\* is no byte among the first four is left to the resolver.  Numbers of more
\* than 32 bits, a fifth component, the empty name, and class C addresses with
\* bytes missing, which parseip accepts or may accept too, are left aside.
LookupExact ==
  LET n == Network(name[1].x)
      k == Len(name)
  IN  name # << >> =>
        /\ IsAddress /\ ip # Unset => ip = [i \in 1 .. 4 |->
             IF i <= n THEN name[i].x
             ELSE IF i > 4 - (k - n) THEN name[i - 4 + k].x ELSE 0]
        /\ (\E i \in 1 .. k : i <= 4 /\ ~name[i].wraps /\ ~IsByte(name[i])) =>
             ip \in Hosts \cup {Unset}

=============================================================================
