------------------------------- MODULE Trace -------------------------------
(***************************************************************************)
(* What a package did, read from gVisor's log of its system calls          *)
(* (sandbox/histor_observe.py read_trace): which socket a send left by,    *)
(* and where a file landed.  The kernel knows; the log prints one line per *)
(* traced call, with descriptors, inodes and some addresses; close is not  *)
(* traced and socketpair does not print its two descriptors.  Each action  *)
(* is one call and the reading of its line; descriptors are not duplicated *)
(* except by fork.                                                         *)
(***************************************************************************)
EXTENDS Integers, Sequences, FiniteSets

CONSTANTS Fds,         \* descriptor numbers, which come back after close
          MaxSockets   \* bound: sockets made, in all

ASSUME TraceAssumption == MaxSockets \in Nat

Processes == {"parent", "child"}
Unknown == "unknown"
Peers == {"outside", "inside"}  \* inside: loopback, the resolver (it has its own log), what libc itself tries

VARIABLES
    sockets,   \* kernel, by inode: family, peer, the process that made it
    fd,        \* kernel: the inode of a process's descriptor, 0 when closed
    forked,    \* kernel: there is a child
    reader,    \* read_trace: what it holds and what it found
    sent,      \* history: <<inode, process>> by which something left the container
    blurred,   \* history: inodes accepted, not used, when their process made a pair
    landed     \* history: names under which a file that acts again landed

trace == <<sockets, fd, forked, reader, sent, blurred, landed>>

Keys == Processes \X Fds

TraceInit ==
    /\ sockets = << >> /\ fd = [k \in Keys |-> 0] /\ forked = FALSE /\ sent = {} /\ blurred = {} /\ landed = {}
    /\ reader = [over |-> FALSE, pairs |-> FALSE,
                 made |-> [k \in Keys |-> Unknown], accepted |-> [k \in Keys |-> Unknown],
                 family |-> [i \in 1..MaxSockets |-> Unknown], peer |-> [i \in 1..MaxSockets |-> Unknown],
                 network |-> {}, writes |-> {}, issues |-> {}]

Free(k) == fd[k] = 0
Runs(k) == ~reader.over /\ (k[1] = "child" => forked)
NewSocket(k, family, peer) ==
    /\ Runs(k) /\ Free(k) /\ Len(sockets) < MaxSockets
    /\ sockets' = Append(sockets, [family |-> family, peer |-> peer, by |-> k[1]])

-----------------------------------------------------------------------------
(* Calls that make and close descriptors.                                   *)
Socket(k, family) ==
    /\ NewSocket(k, family, Unknown)
    /\ fd' = [fd EXCEPT ![k] = Len(sockets) + 1]
    /\ reader' = [reader EXCEPT !.made[k] = family, !.accepted[k] = Unknown]
    /\ UNCHANGED <<forked, sent, blurred, landed>>

Close(k) ==
    /\ Runs(k) /\ ~Free(k)
    /\ fd' = [fd EXCEPT ![k] = 0]
    /\ UNCHANGED <<sockets, forked, reader, sent, blurred, landed>>

\* Mutant: what socket() gave out before stays (gvisor-trace/5).
SocketPairKeeps(k, other) ==
    /\ k # other /\ k[1] = other[1] /\ Free(other) /\ NewSocket(k, "pair", Unknown)
    /\ fd' = [fd EXCEPT ![k] = Len(sockets) + 1, ![other] = Len(sockets) + 1]
    /\ reader' = [reader EXCEPT !.pairs = TRUE]
    /\ UNCHANGED <<forked, sent, blurred, landed>>

\* One inode stands for both ends: neither leaves the container.
SocketPair(k, other) ==
    /\ k # other /\ k[1] = other[1] /\ Free(other) /\ NewSocket(k, "pair", Unknown)
    /\ fd' = [fd EXCEPT ![k] = Len(sockets) + 1, ![other] = Len(sockets) + 1]
    /\ LET forgotten(f) == [j \in Keys |-> IF j[1] = k[1] THEN Unknown ELSE f[j]]
       IN  reader' = [reader EXCEPT !.pairs = TRUE, !.made = forgotten(@), !.accepted = forgotten(@)]
    /\ blurred' = blurred \cup {fd[j] : j \in {x \in Keys : x[1] = k[1] /\ ~Free(x) /\ reader.accepted[x] # Unknown}}
    /\ UNCHANGED <<forked, sent, landed>>

\* Who connected may be printed, or not.
Accept(k, peer, printed) ==
    /\ NewSocket(k, "AF_INET", peer)
    /\ fd' = [fd EXCEPT ![k] = Len(sockets) + 1]
    /\ reader' = [reader EXCEPT !.made[k] = Unknown,
                                !.accepted[k] = IF printed THEN peer ELSE "somewhere"]
    /\ UNCHANGED <<forked, sent, blurred, landed>>

Fork ==
    /\ ~reader.over /\ ~forked /\ forked' = TRUE
    /\ fd' = [k \in Keys |-> fd[<<"parent", k[2]>>]]
    /\ UNCHANGED <<sockets, reader, sent, blurred, landed>>

-----------------------------------------------------------------------------
(* Calls that use a socket.                                                 *)
\* The family and the peer pass from the descriptor to the inode at its first use.
HandOver(k) ==
    LET i == fd[k]
        made == reader.made[k]
        peer == reader.accepted[k]
    IN  IF reader.family[i] # Unknown THEN reader
        ELSE IF made # Unknown THEN [reader EXCEPT !.family[i] = made, !.made[k] = Unknown]
        ELSE IF peer = Unknown THEN reader
        ELSE [reader EXCEPT !.accepted[k] = Unknown,
                            !.family[i] = IF peer = "somewhere" THEN "accepted" ELSE "AF_INET",
                            !.peer[i] = IF peer = "somewhere" THEN @ ELSE peer]

\* A call that names no destination, on a socket not known to have one.
Unresolved(r, i, call) ==
    IF r.family[i] = "AF_NETLINK" \/ (r.family[i] = Unknown /\ r.pairs /\ call = "send") THEN r
    ELSE [r EXCEPT !.issues = @ \cup {"socket-destination-unresolved"}, !.network = @ \cup {i}]

LineOf(k, call, address) ==
    LET r == HandOver(k)
        i == fd[k]
        known == IF address # Unknown THEN address ELSE r.peer[i]
        held == IF call = "connect" /\ address # Unknown THEN [r EXCEPT !.peer[i] = address] ELSE r
    IN  IF known = Unknown THEN Unresolved(held, i, call)
        ELSE [held EXCEPT !.network = IF known = "outside" THEN @ \cup {i} ELSE @]

\* The line is printed whether the connect succeeds or fails.
ConnectTo(k, peer, succeeds) ==
    /\ Runs(k) /\ ~Free(k) /\ sockets[fd[k]].family = "AF_INET" /\ sockets[fd[k]].peer = Unknown
    /\ reader' = LineOf(k, "connect", peer)
    /\ sockets' = IF succeeds THEN [sockets EXCEPT ![fd[k]].peer = peer] ELSE sockets
    /\ UNCHANGED <<fd, forked, sent, blurred, landed>>

\* sendto, sendmsg and sendmmsg: to the address they name, or by the connection.
Send(k, address) ==
    /\ Runs(k) /\ ~Free(k)
    /\ LET s == sockets[fd[k]]
           goes == IF address # Unknown THEN address ELSE s.peer
       IN  /\ (address # Unknown => s.family = "AF_INET") /\ (s.family = "AF_INET" => goes # Unknown)
           /\ reader' = LineOf(k, "send", address)
           /\ sent' = IF goes = "outside" THEN sent \cup {<<fd[k], k[1]>>} ELSE sent
    /\ UNCHANGED <<sockets, fd, forked, blurred, landed>>

-----------------------------------------------------------------------------
(* Calls that put a file somewhere.                                         *)
\* How the log prints the name: absolute; relative, with the directory; with the descriptor whose
\* directory it printed earlier in the line; or with none, as rename and AT_FDCWD.
Printed == {"absolute", "directory", "repeated", "none"}

Resolvable(call, how) == how # "none" /\ (how = "repeated" => call = "renameat")

\* Files and sockets share nothing but the issues: here one file is the whole trace.
Lands(call, how, again) ==
    /\ ~reader.over /\ sockets = << >>
    /\ landed' = IF again THEN landed \cup {<<call, how>>} ELSE landed
    /\ reader' = [reader EXCEPT !.over = TRUE,
                     !.issues = IF Resolvable(call, how) THEN @ ELSE @ \cup {"relative-path-unresolved"},
                     !.writes = IF Resolvable(call, how) /\ again THEN @ \cup {<<call, how>>} ELSE @]
    /\ UNCHANGED <<sockets, fd, forked, sent, blurred>>

Finish ==
    /\ ~reader.over /\ reader' = [reader EXCEPT !.over = TRUE]
    /\ UNCHANGED <<sockets, fd, forked, sent, blurred, landed>>

Tracing ==
    \/ \E k \in Keys :
          \/ \E family \in {"AF_INET", "AF_NETLINK"} : Socket(k, family)
          \/ Close(k)
          \/ \E other \in Keys : SocketPair(k, other)
          \/ \E peer \in Peers, printed \in BOOLEAN : Accept(k, peer, printed)
          \/ \E peer \in Peers, succeeds \in BOOLEAN : ConnectTo(k, peer, succeeds)
          \/ \E address \in Peers \cup {Unknown} : Send(k, address)
    \/ Fork
    \/ \E call \in {"openat", "renameat", "rename"}, how \in Printed, again \in BOOLEAN : Lands(call, how, again)
    \/ Finish

-----------------------------------------------------------------------------
\* A complete verdict has lost nothing: whatever left the container by a socket of the process
\* that used it is in the network list, and whatever would act again is in the writes.  What a
\* pair made the log forget is EverySendIsReported's.
NothingIsLost ==
    (reader.over /\ reader.issues = {}) =>
        /\ landed \subseteq reader.writes
        /\ \A s \in sent : s[2] = sockets[s[1]].by /\ s[1] \notin blurred => s[1] \in reader.network

\* In-process pairs are not listed as sends HISTOR could not place (gvisor-trace/5's mistake).
PairsAreQuiet == \A i \in reader.network : sockets[i].family # "pair"

\* The verdict about a package is what its calls did.
TraceIsTrue == NothingIsLost /\ PairsAreQuiet

\* So is what a child answers on a connection its parent accepted, and what a process answers on
\* one it accepted before it made a pair.
EverySendIsReported ==
    (reader.over /\ reader.issues = {}) => \A s \in sent : s[1] \in reader.network

=============================================================================
