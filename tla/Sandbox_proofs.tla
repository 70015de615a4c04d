--------------------------- MODULE Sandbox_proofs ---------------------------
(***************************************************************************)
(* Theorems about Sandbox and Trace, for every finite number of threads,   *)
(* every pool and host, any addresses, descriptors and sockets: the slots, *)
(* and what is published of a package.                                     *)
(***************************************************************************)
EXTENDS PackageRun, FiniteSetTheorems, SequenceTheorems, TLAPS

-----------------------------------------------------------------------------
(* The inductive invariant.  A slot that is not free is held by one thread, *)
(* which is in a call to that host; a thread leaves its call, by whatever   *)
(* way, when it gives back the slot, and what the host goes on doing for    *)
(* the call it left answers nobody.                                         *)

Calls(h) == {t \in Threads : thread[t].at = "call" /\ thread[t].host = h}

ThreadState == [at : {"idle", "call", "retry", "done"}, try : {1, 2}, host : Hosts \cup {None},
                result : {None, "fact", "observed", "error"}]

PoolInv ==
    /\ thread \in [Threads -> ThreadState]
    /\ free \in [Hosts -> Int]
    /\ \A t \in Threads : thread[t].at = "call" => thread[t].host \in Hosts
    /\ \A h \in Hosts : free[h] + Cardinality(Calls(h)) = PoolSlots

-----------------------------------------------------------------------------
LEMMA CallsAreFinite ==
    ASSUME IsFiniteSet(Threads)
    PROVE  \A h : IsFiniteSet(Calls(h)) /\ Cardinality(Calls(h)) \in Nat
BY FS_Subset, FS_CardinalityType DEF Calls

LEMMA PoolInvInit == Init => PoolInv
<1> SUFFICES ASSUME Init
             PROVE  PoolInv
  OBVIOUS
<1>1. \A t \in Threads : thread[t].at = "idle"
  BY DEF Init, NoThread
<1>2. \A h \in Hosts : Calls(h) = {}
  BY <1>1 DEF Calls
<1>3. NoThread \in ThreadState
  BY DEF NoThread, ThreadState
<1>4. thread \in [Threads -> ThreadState] /\ free \in [Hosts -> Int]
  BY <1>3, SandboxAssumption DEF Init
<1>5. \A h \in Hosts : free[h] + Cardinality(Calls(h)) = PoolSlots
  BY <1>2, FS_EmptySet, SandboxAssumption DEF Init
<1> QED
  BY <1>1, <1>4, <1>5 DEF PoolInv

\* A thread that takes a slot was in no call.
LEMMA PoolInvTake ==
    ASSUME IsFiniteSet(Threads), PoolInv, NEW t \in Threads, Take(t)
    PROVE  PoolInv'
<1>1. PICK h \in Hosts : /\ thread' = [thread EXCEPT ![t].at = "call", ![t].host = h]
                         /\ free' = [free EXCEPT ![h] = @ - 1]
  BY DEF Take, Choices
<1>2. thread[t].at # "call" /\ thread \in [Threads -> ThreadState] /\ free \in [Hosts -> Int]
  BY DEF Take, PoolInv
<1>3. /\ \A u \in Threads \ {t} : thread'[u] = thread[u]
      /\ thread'[t].at = "call" /\ thread'[t].host = h
  BY <1>1, <1>2
<1>4. thread' \in [Threads -> ThreadState]
  <2> DEFINE called == [thread[t] EXCEPT !.at = "call", !.host = h]
  <2>1. called \in ThreadState
    BY <1>2 DEF ThreadState
  <2>2. thread' = [thread EXCEPT ![t] = called]
    BY <1>1, <1>2
  <2> HIDE DEF called
  <2> QED
    BY <1>2, <2>1, <2>2
<1>5. Calls(h)' = Calls(h) \cup {t} /\ t \notin Calls(h)
  BY <1>2, <1>3 DEF Calls
<1>6. \A g \in Hosts \ {h} : Calls(g)' = Calls(g)
  BY <1>2, <1>3 DEF Calls
<1>7. \A g \in Hosts : free'[g] + Cardinality(Calls(g)') = PoolSlots
  <2> SUFFICES ASSUME NEW g \in Hosts
               PROVE  free'[g] + Cardinality(Calls(g)') = PoolSlots
    OBVIOUS
  <2>0. free[g] + Cardinality(Calls(g)) = PoolSlots /\ free[g] \in Int /\ Cardinality(Calls(g)) \in Nat
    BY <1>2, CallsAreFinite DEF PoolInv
  <2>1. CASE g = h
    <3>1. Cardinality(Calls(g)') = Cardinality(Calls(g)) + 1
      BY <1>5, <2>1, CallsAreFinite, FS_AddElement
    <3>2. free'[g] = free[g] - 1
      BY <1>1, <1>2, <2>1
    <3> QED
      BY <2>0, <3>1, <3>2
  <2>2. CASE g # h
    BY <1>1, <1>2, <1>6, <2>0, <2>2
  <2> QED
    BY <2>1, <2>2
<1>8. \A u \in Threads : thread'[u].at = "call" => thread'[u].host \in Hosts
  BY <1>3 DEF PoolInv
<1>9. free' \in [Hosts -> Int]
  BY <1>1, <1>2
<1> QED
  BY <1>4, <1>7, <1>8, <1>9 DEF PoolInv

\* The one place where a call ends.
LEMMA PoolInvReturn ==
    ASSUME IsFiniteSet(Threads), PoolInv, NEW t \in Threads, thread[t].at = "call",
           NEW result \in {"fact", "observed", "error"}, Return(t, result)
    PROVE  PoolInv'
<1>1. thread \in [Threads -> ThreadState] /\ free \in [Hosts -> Int]
  BY DEF PoolInv
<1>2. PICK h \in Hosts : h = thread[t].host
  BY DEF PoolInv
<1>3. /\ free' = [free EXCEPT ![h] = @ + 1]
      /\ \/ thread' = [thread EXCEPT ![t].at = "retry", ![t].try = 2]
         \/ thread' = [thread EXCEPT ![t].at = "done", ![t].result = result]
  BY <1>2 DEF Return
<1>4. \E state \in ThreadState : state.at # "call" /\ thread' = [thread EXCEPT ![t] = state]
  <2> DEFINE retried == [thread[t] EXCEPT !.at = "retry", !.try = 2]
             done == [thread[t] EXCEPT !.at = "done", !.result = result]
  <2>1. /\ retried \in ThreadState /\ retried.at # "call"
        /\ done \in ThreadState /\ done.at # "call"
    BY <1>1 DEF ThreadState
  <2>2. thread' = [thread EXCEPT ![t] = retried] \/ thread' = [thread EXCEPT ![t] = done]
    BY <1>1, <1>3
  <2> HIDE DEF retried, done
  <2> QED
    BY <2>1, <2>2
<1>5. /\ \A u \in Threads \ {t} : thread'[u] = thread[u]
      /\ thread'[t].at # "call"
      /\ thread' \in [Threads -> ThreadState]
  BY <1>1, <1>4
<1>6. Calls(h)' = Calls(h) \ {t} /\ t \in Calls(h)
  BY <1>2, <1>5 DEF Calls
<1>7. \A g \in Hosts \ {h} : Calls(g)' = Calls(g)
  BY <1>2, <1>5 DEF Calls
<1>8. \A g \in Hosts : free'[g] + Cardinality(Calls(g)') = PoolSlots
  <2> SUFFICES ASSUME NEW g \in Hosts
               PROVE  free'[g] + Cardinality(Calls(g)') = PoolSlots
    OBVIOUS
  <2>0. free[g] + Cardinality(Calls(g)) = PoolSlots /\ free[g] \in Int /\ Cardinality(Calls(g)) \in Nat
    BY <1>1, CallsAreFinite DEF PoolInv
  <2>1. CASE g = h
    <3>1. Cardinality(Calls(g)') = Cardinality(Calls(g)) - 1
      BY <1>6, <2>1, CallsAreFinite, FS_RemoveElement
    <3>2. free'[g] = free[g] + 1
      BY <1>3, <1>1, <2>1
    <3> QED
      BY <2>0, <3>1, <3>2
  <2>2. CASE g # h
    BY <1>3, <1>1, <1>7, <2>0, <2>2
  <2> QED
    BY <2>1, <2>2
<1>9. \A u \in Threads : thread'[u].at = "call" => thread'[u].host \in Hosts
  BY <1>5 DEF PoolInv
<1>10. free' \in [Hosts -> Int]
  BY <1>3, <1>1
<1> QED
  BY <1>5, <1>8, <1>9, <1>10 DEF PoolInv

LEMMA PoolInvKept ==
    ASSUME PoolInv, UNCHANGED <<thread, free>>
    PROVE  PoolInv'
BY DEF PoolInv, Calls

\* An answer counts for the attempt it is of, and for nobody once that was given up.
LEMMA PoolInvAnswered ==
    ASSUME IsFiniteSet(Threads), PoolInv, NEW j \in Jobs,
           NEW result \in {"fact", "observed", "error"}, Answered(j, result)
    PROVE  PoolInv'
<1>1. j[1] \in Threads
  BY DEF Jobs
<1>2. CASE thread[j[1]].at = "call" /\ thread[j[1]].try = j[2]
  BY <1>1, <1>2, PoolInvReturn DEF Answered
<1>3. CASE ~(thread[j[1]].at = "call" /\ thread[j[1]].try = j[2])
  BY <1>3, PoolInvKept DEF Answered, pool
<1> QED
  BY <1>2, <1>3

LEMMA PoolInvHost ==
    ASSUME IsFiniteSet(Threads), PoolInv, NEW j \in Jobs, Host(j)
    PROVE  PoolInv'
<1>1. CASE Refuse(j) \/ SlotTimeout(j) \/ RemoveFails(j)
  BY <1>1, PoolInvAnswered DEF Refuse, SlotTimeout, RemoveFails, Ends
<1>2. CASE FactBeforeRun(j)
  BY <1>2, PoolInvAnswered DEF FactBeforeRun, Ends
<1>3. CASE AnsweredOutside(j) \/ SlotEndsEarly(j)
  BY <1>3, PoolInvAnswered DEF AnsweredOutside, SlotEndsEarly, Ends
<1>4. CASE Report(j)
  BY <1>4, PoolInvAnswered DEF Report
<1>5. CASE Admit(j) \/ TakeSlot(j) \/ DockerRun(j) \/ ContainerStarts(j) \/ Remove(j)
  BY <1>5, PoolInvKept DEF Admit, TakeSlot, DockerRun, ContainerStarts, Remove, pool
<1> QED
  BY <1>1, <1>2, <1>3, <1>4, <1>5 DEF Host

LEMMA PoolInvNext ==
    ASSUME IsFiniteSet(Threads), PoolInv, [Next]_vars
    PROVE  PoolInv'
<1>1. CASE \E t \in Threads : Take(t) \/ GiveUp(t)
  BY <1>1, PoolInvTake, PoolInvReturn DEF GiveUp
<1>2. CASE \E j \in Jobs : Host(j)
  BY <1>2, PoolInvHost
<1>3. CASE \E j \in Jobs : LookUp(j) \/ Connect(j) \/ ContainerExits(j)
  BY <1>3, PoolInvKept DEF LookUp, Connect, ContainerExits, Sends, pool
<1>4. CASE \E c \in opening : Record(c)
  BY <1>4, PoolInvKept DEF Record, pool
<1>5. CASE UNCHANGED vars
  BY <1>5, PoolInvKept DEF vars, pool
<1> QED
  BY <1>1, <1>2, <1>3, <1>4, <1>5 DEF Next

\* Whatever times out, fails, is answered late or is tried again on another host, the slots of a
\* host that are not free are those of the calls to it: none is lost, none given back twice.
THEOREM SlotsStand == ASSUME IsFiniteSet(Threads) PROVE Spec => []SlotsComeBack
<1>1. Init => PoolInv
  BY PoolInvInit
<1>2. PoolInv /\ [Next]_vars => PoolInv'
  BY PoolInvNext
<1>3. PoolInv => SlotsComeBack
  BY DEF PoolInv, SlotsComeBack, Calls
<1> QED
  BY <1>1, <1>2, <1>3, PTL DEF Spec

-----------------------------------------------------------------------------
(* The reading of the trace.  What the reader holds of a descriptor that is *)
(* open is of the inode behind it; what it holds of an inode is so of the   *)
(* kernel's socket.  A connection whose peer it does not know is one it     *)
(* will not take for a pair's end: it has a family, or will be given one at *)
(* its first use by the process that accepted it.                           *)

SocketType == [family : {"AF_INET", "AF_NETLINK", "pair"}, peer : Peers \cup {Unknown}, by : Processes]

Made == [Keys -> {Unknown, "AF_INET", "AF_NETLINK"}]
Accepted == [Keys -> Peers \cup {Unknown, "somewhere"}]
Families == [1..MaxSockets -> {Unknown, "AF_INET", "AF_NETLINK", "accepted"}]
Known == [1..MaxSockets -> Peers \cup {Unknown}]
Inodes == SUBSET Nat
Landings == SUBSET ({"openat", "renameat", "rename"} \X Printed)
Issues == SUBSET {"socket-destination-unresolved", "relative-path-unresolved"}

ReaderType ==
    [over : BOOLEAN, pairs : BOOLEAN, made : Made, accepted : Accepted, family : Families, peer : Known,
     network : Inodes, writes : Landings, issues : Issues]

Kernel ==
    /\ sockets \in Seq(SocketType) /\ Len(sockets) <= MaxSockets
    /\ fd \in [Keys -> 0..Len(sockets)]
    /\ forked \in BOOLEAN
    /\ ~forked => \A i \in 1..Len(sockets) : sockets[i].by = "parent"
    /\ \A i \in 1..Len(sockets) : sockets[i].peer # Unknown => sockets[i].family = "AF_INET"

OfDescriptors(r) ==
    \A k \in Keys :
        /\ k[1] = "child" /\ ~forked => r.made[k] = Unknown /\ r.accepted[k] = Unknown
        /\ fd[k] # 0 =>
              /\ r.made[k] # Unknown => r.made[k] = sockets[fd[k]].family /\ r.accepted[k] = Unknown
              /\ r.accepted[k] # Unknown =>
                    /\ sockets[fd[k]].by = k[1] /\ sockets[fd[k]].peer # Unknown
                    /\ r.accepted[k] \in {"somewhere", sockets[fd[k]].peer}

\* The peer of inode i is known, or its family will be when the process it is of uses it.
Placed(r, i) ==
    \/ r.peer[i] = sockets[i].peer
    \/ /\ r.peer[i] = Unknown
       /\ \/ r.family[i] # Unknown
          \/ i \in blurred
          \/ \A k \in Keys : k[1] = sockets[i].by /\ fd[k] = i => r.accepted[k] # Unknown

OfInodes(r) ==
    /\ \A i \in 1..Len(sockets) :
          /\ sockets[i].family = "pair" =>
                r.pairs /\ r.family[i] = Unknown /\ r.peer[i] = Unknown /\ i \notin r.network
          /\ r.family[i] = "AF_NETLINK" => sockets[i].family = "AF_NETLINK"
          /\ sockets[i].peer # Unknown => Placed(r, i)
    /\ \A i \in 1..MaxSockets : i > Len(sockets) => r.family[i] = Unknown /\ r.peer[i] = Unknown
    /\ r.network \subseteq 1..Len(sockets)

Told(r) ==
    r.issues = {} =>
        /\ landed \subseteq r.writes
        /\ \A s \in sent : s[2] = sockets[s[1]].by /\ s[1] \notin blurred => s[1] \in r.network

TraceInv ==
    /\ Kernel
    /\ reader \in ReaderType /\ OfDescriptors(reader) /\ OfInodes(reader)
    /\ sent \subseteq (1..Len(sockets)) \X Processes
    /\ Told(reader)

LEMMA TraceInvInit == TraceInit => TraceInv
<1> SUFFICES ASSUME TraceInit
             PROVE  TraceInv
  OBVIOUS
<1>1. Kernel
  <2>1. sockets = << >> /\ sockets \in Seq(SocketType) /\ Len(sockets) = 0
    BY DEF TraceInit
  <2>2. 0 \in 0..Len(sockets)
    BY <2>1
  <2>3. fd \in [Keys -> 0..Len(sockets)] /\ forked \in BOOLEAN
    BY <2>2 DEF TraceInit
  <2> QED
    BY <2>1, <2>3, TraceAssumption DEF Kernel
<1>2. reader \in ReaderType
  BY DEF TraceInit, ReaderType, Made, Accepted, Families, Known, Inodes, Landings, Issues
<1>3. \A k \in Keys : reader.made[k] = Unknown /\ reader.accepted[k] = Unknown /\ fd[k] = 0
  BY DEF TraceInit
<1>4. OfDescriptors(reader)
  BY <1>3 DEF OfDescriptors
<1>5. OfInodes(reader)
  BY DEF TraceInit, OfInodes
<1> QED
  BY <1>1, <1>2, <1>4, <1>5 DEF TraceInv, TraceInit, Told

\* A new socket is the last; those before it are what they were.
LEMMA SocketMade ==
    ASSUME Kernel, NEW k \in Keys, NEW family \in {"AF_INET", "AF_NETLINK", "pair"},
           NEW peer \in Peers \cup {Unknown}, NewSocket(k, family, peer)
    PROVE  /\ sockets' \in Seq(SocketType)
           /\ Len(sockets) \in Nat /\ Len(sockets') = Len(sockets) + 1 /\ Len(sockets') <= MaxSockets
           /\ \A i \in 1..Len(sockets) : sockets'[i] = sockets[i]
           /\ sockets'[Len(sockets) + 1] = [family |-> family, peer |-> peer, by |-> k[1]]
<1> DEFINE s == [family |-> family, peer |-> peer, by |-> k[1]]
<1>1. s \in SocketType
  BY DEF SocketType, Keys
<1>2. sockets' = Append(sockets, s) /\ Len(sockets) < MaxSockets /\ sockets \in Seq(SocketType)
  BY DEF NewSocket, Kernel
<1> HIDE DEF s
<1>3. Len(sockets) \in Nat
  BY <1>2
<1>4. Len(sockets') = Len(sockets) + 1 /\ sockets' \in Seq(SocketType)
  BY <1>1, <1>2
<1>5. \A i \in 1..Len(sockets) : sockets'[i] = sockets[i]
  BY <1>1, <1>2
<1>6. sockets'[Len(sockets) + 1] = s
  BY <1>1, <1>2
<1> QED
  BY <1>2, <1>3, <1>4, <1>5, <1>6, TraceAssumption DEF s

\* What a new socket adds to the kernel, whoever holds its descriptors.
LEMMA KernelGrows ==
    ASSUME Kernel, NEW k \in Keys, NEW family \in {"AF_INET", "AF_NETLINK", "pair"},
           NEW peer \in Peers \cup {Unknown}, NewSocket(k, family, peer), peer # Unknown => family = "AF_INET",
           fd' \in [Keys -> 0..Len(sockets) + 1], forked' = forked
    PROVE  Kernel'
<1>1. /\ sockets' \in Seq(SocketType) /\ Len(sockets) \in Nat
      /\ Len(sockets') = Len(sockets) + 1 /\ Len(sockets') <= MaxSockets
      /\ \A i \in 1..Len(sockets) : sockets'[i] = sockets[i]
      /\ sockets'[Len(sockets) + 1] = [family |-> family, peer |-> peer, by |-> k[1]]
  BY SocketMade
<1>2. ~forked => k[1] = "parent"
  BY DEF NewSocket, Runs, Keys, Processes
<1>3. \A i \in 1..Len(sockets') : i \in 1..Len(sockets) \/ i = Len(sockets) + 1
  BY <1>1
<1>4. ~forked' => \A i \in 1..Len(sockets') : sockets'[i].by = "parent"
  BY <1>1, <1>2, <1>3 DEF Kernel
<1>5. \A i \in 1..Len(sockets') : sockets'[i].peer # Unknown => sockets'[i].family = "AF_INET"
  BY <1>1, <1>3 DEF Kernel
<1> QED
  BY <1>1, <1>4, <1>5 DEF Kernel

-----------------------------------------------------------------------------
(* A call that uses a socket.                                               *)

\* The first use moves what is known of the descriptor to its inode, and changes nothing else.
LEMMA HandsOver ==
    ASSUME Kernel, reader \in ReaderType, OfDescriptors(reader), OfInodes(reader),
           NEW k \in Keys, fd[k] # 0, NEW r, r = HandOver(k)
    PROVE  /\ r \in ReaderType /\ OfDescriptors(r) /\ OfInodes(r)
           /\ r.over = reader.over /\ r.pairs = reader.pairs /\ r.network = reader.network
           /\ r.writes = reader.writes /\ r.issues = reader.issues
           /\ (k[1] = sockets[fd[k]].by /\ sockets[fd[k]].peer # Unknown /\ r.peer[fd[k]] = Unknown)
                 => (r.family[fd[k]] # Unknown \/ fd[k] \in blurred)
<1>1. PICK i : i = fd[k]
  OBVIOUS
<1>2. i \in 1..Len(sockets) /\ i \in 1..MaxSockets /\ Len(sockets) \in Nat
  BY <1>1, TraceAssumption DEF Kernel
<1>3. sockets[i] \in SocketType
  BY <1>2 DEF Kernel
<1>4. CASE r = reader
  <2>1. reader.family[i] # Unknown \/ reader.accepted[k] = Unknown
    <3>1. SUFFICES ASSUME reader.family[i] = Unknown, reader.accepted[k] # Unknown
                   PROVE  FALSE
      OBVIOUS
    <3>2. reader.made[k] = Unknown
      BY <1>1, <1>2, <3>1 DEF OfDescriptors
    <3>3. r = [reader EXCEPT !.accepted[k] = Unknown,
                             !.family[i] = IF reader.accepted[k] = "somewhere" THEN "accepted" ELSE "AF_INET",
                             !.peer[i] = IF reader.accepted[k] = "somewhere" THEN @ ELSE reader.accepted[k]]
      BY <1>1, <3>1, <3>2 DEF HandOver
    <3>4. r.family[i] # Unknown
      <4>1. PICK family : family = IF reader.accepted[k] = "somewhere" THEN "accepted" ELSE "AF_INET"
        OBVIOUS
      <4>2. r.family = [reader.family EXCEPT ![i] = family]
        BY <3>3, <4>1 DEF ReaderType, Made, Accepted, Families, Known
      <4> QED
        BY <1>2, <4>1, <4>2 DEF ReaderType, Made, Accepted, Families, Known, Unknown
    <3> QED
      BY <1>4, <3>1, <3>4
  <2> QED
    BY <1>1, <1>2, <1>4, <2>1 DEF OfInodes, Placed
<1>5. CASE reader.family[i] = Unknown /\ reader.made[k] # Unknown
  <2>1. r = [reader EXCEPT !.family[i] = reader.made[k], !.made[k] = Unknown]
    BY <1>1, <1>5 DEF HandOver
  <2>2. /\ r.over = reader.over /\ r.pairs = reader.pairs /\ r.network = reader.network
        /\ r.writes = reader.writes /\ r.issues = reader.issues
        /\ r.accepted = reader.accepted /\ r.peer = reader.peer
        /\ r.family = [reader.family EXCEPT ![i] = reader.made[k]]
        /\ r.made = [reader.made EXCEPT ![k] = Unknown]
    BY <2>1 DEF ReaderType, Made, Accepted, Families, Known
  <2>3. r \in ReaderType
    <3>1. PICK family : family = r.family
      OBVIOUS
    <3>2. PICK made : made = r.made
      OBVIOUS
    <3>3. r = [reader EXCEPT !.family = family, !.made = made]
      BY <2>1, <2>2, <3>1, <3>2 DEF ReaderType, Made, Accepted, Families, Known
    <3>4. reader.made[k] \in {Unknown, "AF_INET", "AF_NETLINK"}
      BY DEF ReaderType, Made, Accepted, Families, Known
    <3>5. family \in Families
      BY <1>2, <2>2, <3>1, <3>4 DEF ReaderType, Made, Accepted, Families, Known
    <3>6. made \in Made
      BY <2>2, <3>2 DEF ReaderType, Made, Accepted, Families, Known
    <3> QED
      BY <3>3, <3>5, <3>6 DEF ReaderType
  <2>4. reader.made[k] = sockets[i].family /\ sockets[i].family # "pair"
    BY <1>1, <1>2, <1>5 DEF OfDescriptors, ReaderType, Made, Accepted, Families, Known, Unknown
  <2>5. OfDescriptors(r)
    <3>1. \A j \in Keys : r.made[j] = IF j = k THEN Unknown ELSE reader.made[j]
      BY <2>2 DEF ReaderType, Made, Accepted, Families, Known
    <3> QED
      BY <2>2, <3>1 DEF OfDescriptors
  <2>6. OfInodes(r)
    <3>1. \A j \in 1..MaxSockets : r.family[j] = IF j = i THEN reader.made[k] ELSE reader.family[j]
      BY <2>2 DEF ReaderType, Made, Accepted, Families, Known
    <3>2. \A j \in 1..Len(sockets) : j \in 1..MaxSockets
      BY <1>2, TraceAssumption DEF Kernel
    <3>3. ASSUME NEW j \in 1..Len(sockets), sockets[j].peer # Unknown
          PROVE  Placed(r, j)
      BY <1>5, <2>2, <3>1, <3>2, <3>3 DEF Placed, OfInodes
    <3>4. ASSUME NEW j \in 1..Len(sockets)
          PROVE  /\ sockets[j].family = "pair" =>
                       r.pairs /\ r.family[j] = Unknown /\ r.peer[j] = Unknown /\ j \notin r.network
                 /\ r.family[j] = "AF_NETLINK" => sockets[j].family = "AF_NETLINK"
      BY <2>2, <2>4, <3>1, <3>2 DEF OfInodes
    <3>5. \A j \in 1..MaxSockets : j > Len(sockets) => r.family[j] = Unknown /\ r.peer[j] = Unknown
      BY <1>2, <2>2, <3>1 DEF OfInodes
    <3>6. r.network \subseteq 1..Len(sockets)
      BY <2>2 DEF OfInodes
    <3> QED
      BY <3>3, <3>4, <3>5, <3>6 DEF OfInodes
  <2>7. r.family[i] # Unknown
    BY <1>2, <1>5, <2>2 DEF ReaderType, Made, Accepted, Families, Known
  <2> QED
    BY <1>1, <2>2, <2>3, <2>5, <2>6, <2>7
<1>6. CASE reader.family[i] = Unknown /\ reader.made[k] = Unknown /\ reader.accepted[k] # Unknown
  <2>1. PICK family : family = IF reader.accepted[k] = "somewhere" THEN "accepted" ELSE "AF_INET"
    OBVIOUS
  <2>2. PICK peer : peer = IF reader.accepted[k] = "somewhere" THEN reader.peer[i] ELSE reader.accepted[k]
    OBVIOUS
  <2>3. r = [reader EXCEPT !.accepted[k] = Unknown, !.family[i] = family, !.peer[i] = peer]
    BY <1>1, <1>6, <2>1, <2>2, <1>2 DEF HandOver, ReaderType, Made, Accepted, Families, Known
  <2>4. /\ r.over = reader.over /\ r.pairs = reader.pairs /\ r.network = reader.network
        /\ r.writes = reader.writes /\ r.issues = reader.issues /\ r.made = reader.made
        /\ r.accepted = [reader.accepted EXCEPT ![k] = Unknown]
        /\ r.family = [reader.family EXCEPT ![i] = family]
        /\ r.peer = [reader.peer EXCEPT ![i] = peer]
    BY <2>3 DEF ReaderType, Made, Accepted, Families, Known
  <2>5. reader.accepted[k] \in Peers \cup {"somewhere"} /\ reader.peer[i] \in Peers \cup {Unknown}
    BY <1>2, <1>6 DEF ReaderType, Made, Accepted, Families, Known
  <2>6. family \in {"accepted", "AF_INET"} /\ peer \in Peers \cup {Unknown}
    BY <2>1, <2>2, <2>5
  <2>7. r \in ReaderType
    <3>1. PICK families : families = r.family
      OBVIOUS
    <3>2. PICK accepted : accepted = r.accepted
      OBVIOUS
    <3>3. PICK peers : peers = r.peer
      OBVIOUS
    <3>4. r = [reader EXCEPT !.accepted = accepted, !.family = families, !.peer = peers]
      BY <2>3, <2>4, <3>1, <3>2, <3>3 DEF ReaderType, Made, Accepted, Families, Known
    <3>5. families \in Families
      BY <1>2, <2>4, <2>6, <3>1 DEF ReaderType, Made, Accepted, Families, Known
    <3>6. accepted \in Accepted
      BY <2>4, <3>2 DEF ReaderType, Made, Accepted, Families, Known
    <3>7. peers \in Known
      BY <1>2, <2>4, <2>6, <3>3 DEF ReaderType, Made, Accepted, Families, Known
    <3> QED
      BY <3>4, <3>5, <3>6, <3>7 DEF ReaderType
  <2>8. sockets[i].by = k[1] /\ sockets[i].peer # Unknown /\ reader.accepted[k] \in {"somewhere", sockets[i].peer}
    BY <1>1, <1>2, <1>6 DEF OfDescriptors
  <2>9. \A j \in Keys : r.accepted[j] = IF j = k THEN Unknown ELSE reader.accepted[j]
    BY <2>4 DEF ReaderType, Made, Accepted, Families, Known
  <2>10. OfDescriptors(r)
    BY <2>4, <2>9 DEF OfDescriptors
  <2>11. OfInodes(r)
    <3>1. \A j \in 1..MaxSockets : /\ r.family[j] = IF j = i THEN family ELSE reader.family[j]
                                   /\ r.peer[j] = IF j = i THEN peer ELSE reader.peer[j]
      BY <2>4 DEF ReaderType, Made, Accepted, Families, Known
    <3>2. \A j \in 1..Len(sockets) : j \in 1..MaxSockets
      BY <1>2, TraceAssumption DEF Kernel
    <3>3. ASSUME NEW j \in 1..Len(sockets), sockets[j].peer # Unknown
          PROVE  Placed(r, j)
      <4>1. CASE j = i
        <5>1. reader.peer[i] \in {Unknown, sockets[i].peer}
          BY <1>2, <2>8 DEF OfInodes, Placed
        <5>2. peer \in {Unknown, sockets[i].peer}
          BY <2>2, <2>8, <5>1
        <5> QED
          BY <3>1, <3>2, <4>1, <5>2, <2>6 DEF Placed, Unknown
      <4>2. CASE j # i
        <5>1. Placed(reader, j)
          BY <3>3 DEF OfInodes
        <5>2. r.peer[j] = reader.peer[j] /\ r.family[j] = reader.family[j]
          BY <3>1, <3>2, <4>2
        <5> QED
          BY <1>1, <2>9, <4>2, <5>1, <5>2 DEF Placed
      <4> QED
        BY <4>1, <4>2
    <3>4. ASSUME NEW j \in 1..Len(sockets)
          PROVE  /\ sockets[j].family = "pair" =>
                       r.pairs /\ r.family[j] = Unknown /\ r.peer[j] = Unknown /\ j \notin r.network
                 /\ r.family[j] = "AF_NETLINK" => sockets[j].family = "AF_NETLINK"
      <4>1. sockets[i].family = "AF_INET"
        BY <1>2, <2>8 DEF Kernel
      <4> QED
        BY <2>4, <2>6, <3>1, <3>2, <4>1 DEF OfInodes
    <3>5. \A j \in 1..MaxSockets : j > Len(sockets) => r.family[j] = Unknown /\ r.peer[j] = Unknown
      BY <1>2, <3>1 DEF OfInodes
    <3>6. r.network \subseteq 1..Len(sockets)
      BY <2>4 DEF OfInodes
    <3> QED
      BY <3>3, <3>4, <3>5, <3>6 DEF OfInodes
  <2>12. r.family[i] # Unknown
    BY <1>2, <2>4, <2>6 DEF ReaderType, Made, Accepted, Families, Known, Unknown
  <2> QED
    BY <1>1, <2>4, <2>7, <2>10, <2>11, <2>12
<1>7. \/ r = reader
      \/ reader.family[i] = Unknown /\ reader.made[k] # Unknown
      \/ reader.family[i] = Unknown /\ reader.made[k] = Unknown /\ reader.accepted[k] # Unknown
  BY <1>1 DEF HandOver
<1> QED
  BY <1>4, <1>5, <1>6, <1>7

\* What a line adds: its inode to the network list, and perhaps an issue.
LEMMA ListGrows ==
    ASSUME Kernel, NEW r \in ReaderType, OfDescriptors(r), OfInodes(r), Told(r),
           NEW i \in 1..Len(sockets), sockets[i].family # "pair", NEW q,
           q.pairs = r.pairs, q.made = r.made, q.accepted = r.accepted,
           q.family = r.family, q.peer = r.peer, q.writes = r.writes,
           q.network \in {r.network, r.network \cup {i}}, r.issues \subseteq q.issues
    PROVE  OfDescriptors(q) /\ OfInodes(q) /\ Told(q)
<1>1. OfDescriptors(q)
  BY DEF OfDescriptors
<1>2. OfInodes(q)
  <2>1. \A j \in 1..Len(sockets) : sockets[j].peer # Unknown => Placed(q, j)
    BY DEF OfInodes, Placed
  <2>2. \A j \in 1..Len(sockets) : sockets[j].family = "pair" => j \notin q.network
    BY DEF OfInodes
  <2>3. q.network \subseteq 1..Len(sockets)
    BY DEF OfInodes
  <2> QED
    BY <2>1, <2>2, <2>3 DEF OfInodes
<1>3. Told(q)
  BY DEF Told
<1> QED
  BY <1>1, <1>2, <1>3

\* Where a call of the reader leaves off: what is said of the sent is said of what this line sends.
LEMMA TraceInvSend ==
    ASSUME TraceInv, NEW k \in Keys, NEW to \in Peers \cup {Unknown}, Send(k, to)
    PROVE  TraceInv'
<1>1. PICK i : i = fd[k]
  OBVIOUS
<1>2. PICK r : r = HandOver(k)
  OBVIOUS
<1>3. PICK q : q = LineOf(k, "send", to)
  OBVIOUS
<1>4. PICK goes : goes = IF to # Unknown THEN to ELSE sockets[i].peer
  OBVIOUS
<1>5. /\ fd[k] # 0 /\ (to # Unknown => sockets[i].family = "AF_INET")
      /\ (sockets[i].family = "AF_INET" => goes # Unknown)
      /\ reader' = q /\ sent' = IF goes = "outside" THEN sent \cup {<<i, k[1]>>} ELSE sent
      /\ UNCHANGED <<sockets, fd, forked, blurred, landed>>
  BY <1>1, <1>3, <1>4 DEF Send, Free
<1>6. i \in 1..Len(sockets) /\ i \in 1..MaxSockets /\ Len(sockets) \in Nat /\ sockets[i] \in SocketType
  BY <1>1, <1>5, TraceAssumption DEF TraceInv, Kernel
<1>7. /\ r \in ReaderType /\ OfDescriptors(r) /\ OfInodes(r)
      /\ r.network = reader.network /\ r.writes = reader.writes /\ r.issues = reader.issues
      /\ (k[1] = sockets[i].by /\ sockets[i].peer # Unknown /\ r.peer[i] = Unknown)
            => (r.family[i] # Unknown \/ i \in blurred)
  BY <1>1, <1>2, <1>5, HandsOver DEF TraceInv
<1>8. Told(r)
  BY <1>7 DEF TraceInv, Told
<1>9. PICK known : known = IF to # Unknown THEN to ELSE r.peer[i]
  OBVIOUS
<1>10. q = IF known = Unknown THEN Unresolved(r, i, "send")
           ELSE [r EXCEPT !.network = IF known = "outside" THEN @ \cup {i} ELSE @]
  BY <1>1, <1>2, <1>3, <1>9 DEF LineOf
<1>11. /\ q \in ReaderType /\ OfDescriptors(q) /\ OfInodes(q) /\ Told(q)
       /\ (goes = "outside" /\ q.issues = {} /\ k[1] = sockets[i].by /\ i \notin blurred) => i \in q.network
  <2>1. sockets[i].family = "pair" => known = Unknown /\ r.pairs /\ r.family[i] = Unknown
    BY <1>5, <1>6, <1>9, <1>7 DEF OfInodes
  <2>2. goes = "outside" => known \in {"outside", Unknown}
    <3>1. sockets[i].peer # Unknown => r.peer[i] \in {Unknown, sockets[i].peer}
      BY <1>6, <1>7 DEF OfInodes, Placed
    <3> QED
      BY <1>4, <1>9, <3>1 DEF Unknown
  <2> DEFINE quiet == r.family[i] = "AF_NETLINK" \/ (r.family[i] = Unknown /\ r.pairs)
  <2>3. CASE known = Unknown /\ quiet
    <3>1. q = r
      BY <1>10, <2>3 DEF Unresolved
    <3>2. ASSUME goes = "outside", k[1] = sockets[i].by, i \notin blurred
          PROVE  FALSE
      <4>1. to = Unknown /\ sockets[i].peer = "outside" /\ r.peer[i] = Unknown
        BY <1>4, <1>9, <2>3, <3>2 DEF Unknown
      <4>2. r.family[i] = "AF_NETLINK"
        BY <1>7, <2>3, <3>2, <4>1 DEF Unknown
      <4>3. sockets[i].family = "AF_NETLINK" /\ sockets[i].family = "AF_INET"
        BY <1>6, <1>7, <4>1, <4>2 DEF OfInodes, TraceInv, Kernel, Unknown
      <4> QED
        BY <4>3
    <3> QED
      BY <1>7, <1>8, <3>1, <3>2
  <2>4. CASE known = Unknown /\ ~quiet
    <3>1. PICK issues : issues = r.issues \cup {"socket-destination-unresolved"}
      OBVIOUS
    <3>2. PICK network : network = r.network \cup {i}
      OBVIOUS
    <3>3. q = [r EXCEPT !.issues = @ \cup {"socket-destination-unresolved"}, !.network = @ \cup {i}]
      BY <1>10, <2>4 DEF Unresolved
    <3>4. q = [r EXCEPT !.network = network, !.issues = issues]
      BY <3>1, <3>2, <3>3, <1>7 DEF ReaderType
    <3>5. issues \in Issues
      BY <1>7, <3>1 DEF ReaderType, Issues
    <3>6. q \in ReaderType /\ q.network = network
      <4>1. network \in Inodes
        BY <1>6, <1>7, <3>2 DEF ReaderType, Inodes
      <4> QED
        BY <1>7, <3>4, <3>5, <4>1 DEF ReaderType
    <3>7. /\ q.pairs = r.pairs /\ q.made = r.made /\ q.accepted = r.accepted
          /\ q.family = r.family /\ q.peer = r.peer /\ q.writes = r.writes /\ q.issues = issues
      BY <1>7, <3>4 DEF ReaderType
    <3>8. OfDescriptors(q) /\ OfInodes(q) /\ Told(q)
      <4>1. Kernel /\ sockets[i].family # "pair"
        BY <2>1, <2>4 DEF TraceInv
      <4>2. network \in {r.network, r.network \cup {i}} /\ r.issues \subseteq issues
        BY <3>1, <3>2
      <4> QED
        BY <1>6, <1>7, <1>8, <3>6, <3>7, <4>1, <4>2, ListGrows
    <3> QED
      BY <3>2, <3>6, <3>8
  <2>5. CASE known # Unknown
    <3>1. PICK network : network = IF known = "outside" THEN r.network \cup {i} ELSE r.network
      OBVIOUS
    <3>2. q = [r EXCEPT !.network = network, !.issues = r.issues]
      BY <1>7, <1>10, <2>5, <3>1 DEF ReaderType
    <3>3. r.issues \in Issues /\ network \in {r.network, r.network \cup {i}}
      BY <1>7, <3>1 DEF ReaderType
    <3>4. q \in ReaderType /\ q.network = network
      <4>1. network \in Inodes
        BY <1>6, <1>7, <3>1 DEF ReaderType, Inodes
      <4> QED
        BY <1>7, <3>2, <3>3, <4>1 DEF ReaderType
    <3>5. /\ q.pairs = r.pairs /\ q.made = r.made /\ q.accepted = r.accepted
          /\ q.family = r.family /\ q.peer = r.peer /\ q.writes = r.writes /\ q.issues = r.issues
      BY <1>7, <3>2 DEF ReaderType
    <3>6. OfDescriptors(q) /\ OfInodes(q) /\ Told(q)
      <4>1. Kernel /\ sockets[i].family # "pair"
        BY <2>1, <2>5 DEF TraceInv
      <4> QED
        BY <1>6, <1>7, <1>8, <3>3, <3>4, <3>5, <4>1, ListGrows
    <3> QED
      BY <2>2, <2>5, <3>1, <3>4, <3>6
  <2> QED
    BY <2>3, <2>4, <2>5
<1>12. Kernel'
  BY <1>5 DEF TraceInv, Kernel
<1>13. reader' \in ReaderType /\ OfDescriptors(reader)' /\ OfInodes(reader)'
  BY <1>5, <1>11 DEF OfDescriptors, OfInodes, Placed
<1>14. k[1] \in Processes
  BY DEF Keys
<1>15. (sent \subseteq (1..Len(sockets)) \X Processes)'
  BY <1>5, <1>6, <1>14 DEF TraceInv
<1>16. Told(reader)'
  <2>1. \A s \in sent' : s \in sent \/ (goes = "outside" /\ s[1] = i /\ s[2] = k[1])
    BY <1>5
  <2> QED
    BY <1>5, <1>11, <2>1 DEF Told
<1> QED
  BY <1>12, <1>13, <1>15, <1>16 DEF TraceInv

\* A connect that succeeds gives the kernel the peer that its line gives the reader.
LEMMA TraceInvConnectTo ==
    ASSUME TraceInv, NEW k \in Keys, NEW peer \in Peers, NEW succeeds \in BOOLEAN, ConnectTo(k, peer, succeeds)
    PROVE  TraceInv'
<1>1. PICK i : i = fd[k]
  OBVIOUS
<1>2. PICK r : r = HandOver(k)
  OBVIOUS
<1>3. PICK q : q = LineOf(k, "connect", peer)
  OBVIOUS
<1>4. /\ fd[k] # 0 /\ sockets[i].family = "AF_INET" /\ sockets[i].peer = Unknown /\ reader' = q
      /\ sockets' = IF succeeds THEN [sockets EXCEPT ![i].peer = peer] ELSE sockets
      /\ UNCHANGED <<fd, forked, sent, blurred, landed>>
  BY <1>1, <1>3 DEF ConnectTo, Free
<1>5. i \in 1..Len(sockets) /\ i \in 1..MaxSockets /\ Len(sockets) \in Nat /\ sockets[i] \in SocketType
  BY <1>1, <1>4, TraceAssumption DEF TraceInv, Kernel
<1>6. /\ r \in ReaderType /\ OfDescriptors(r) /\ OfInodes(r)
      /\ r.network = reader.network /\ r.writes = reader.writes /\ r.issues = reader.issues
  BY <1>1, <1>2, <1>4, HandsOver DEF TraceInv
<1>7. PICK network : network = IF peer = "outside" THEN r.network \cup {i} ELSE r.network
  OBVIOUS
<1>8. /\ q \in ReaderType /\ q.pairs = r.pairs /\ q.made = r.made /\ q.accepted = r.accepted
      /\ q.family = r.family /\ q.peer = [r.peer EXCEPT ![i] = peer] /\ q.writes = r.writes
      /\ q.network = network /\ q.issues = r.issues
  <2>1. PICK held : held = [r EXCEPT !.peer[i] = peer]
    OBVIOUS
  <2>2. PICK peers : peers = [r.peer EXCEPT ![i] = peer]
    OBVIOUS
  <2>3. peers \in Known /\ network \in Inodes
    BY <1>5, <1>6, <1>7, <2>2 DEF ReaderType, Known, Inodes
  <2>4. held = [r EXCEPT !.peer = peers]
    BY <1>6, <2>1, <2>2 DEF ReaderType
  <2>5. held \in ReaderType /\ held.network = r.network
    BY <1>6, <2>3, <2>4 DEF ReaderType
  <2>6. q = [held EXCEPT !.network = IF peer = "outside" THEN @ \cup {i} ELSE @]
    BY <1>1, <1>2, <1>3, <2>1 DEF LineOf, Peers, Unknown
  <2>7. q = [held EXCEPT !.network = network]
    BY <1>7, <2>5, <2>6 DEF ReaderType
  <2> QED
    BY <1>6, <2>2, <2>3, <2>4, <2>5, <2>7 DEF ReaderType
<1>9. /\ sockets' \in Seq(SocketType) /\ Len(sockets') = Len(sockets)
      /\ \A j \in 1..Len(sockets) : /\ sockets'[j].family = sockets[j].family /\ sockets'[j].by = sockets[j].by
                                    /\ j # i => sockets'[j].peer = sockets[j].peer
      /\ sockets'[i].peer \in {Unknown, peer}
  <2>1. CASE ~succeeds
    BY <1>4, <2>1 DEF TraceInv, Kernel
  <2>2. CASE succeeds
    <3> DEFINE s == [sockets[i] EXCEPT !.peer = peer]
    <3>1. s \in SocketType /\ s.family = sockets[i].family /\ s.by = sockets[i].by /\ s.peer = peer
      BY <1>5 DEF SocketType
    <3>2. sockets \in Seq(SocketType)
      BY DEF TraceInv, Kernel
    <3>3. sockets' = [sockets EXCEPT ![i] = s]
      BY <1>4, <2>2
    <3> HIDE DEF s
    <3>4. sockets' \in Seq(SocketType) /\ Len(sockets') = Len(sockets) /\ sockets'[i] = s
      BY <1>5, <3>1, <3>2, <3>3, ExceptSeq
    <3>5. \A j \in 1..Len(sockets) : j # i => sockets'[j] = sockets[j]
      BY <3>2, <3>3
    <3> QED
      BY <3>1, <3>4, <3>5
  <2> QED
    BY <2>1, <2>2
<1>10. Kernel'
  BY <1>4, <1>9 DEF TraceInv, Kernel
<1>11. \A j \in 1..MaxSockets : q.peer[j] = IF j = i THEN peer ELSE r.peer[j]
  BY <1>6, <1>8 DEF ReaderType, Known
<1>12. OfDescriptors(reader)'
  <2> SUFFICES ASSUME NEW j \in Keys
               PROVE  /\ j[1] = "child" /\ ~forked => q.made[j] = Unknown /\ q.accepted[j] = Unknown
                      /\ fd[j] # 0 =>
                            /\ q.made[j] # Unknown => q.made[j] = sockets'[fd[j]].family /\ q.accepted[j] = Unknown
                            /\ q.accepted[j] # Unknown =>
                                  /\ sockets'[fd[j]].by = j[1] /\ sockets'[fd[j]].peer # Unknown
                                  /\ q.accepted[j] \in {"somewhere", sockets'[fd[j]].peer}
    BY <1>4 DEF OfDescriptors
  <2>1. fd[j] # 0 => fd[j] \in 1..Len(sockets)
    BY <1>5 DEF TraceInv, Kernel
  <2>2. fd[j] = i => q.accepted[j] = Unknown
    BY <1>4, <1>5, <1>6, <1>8 DEF OfDescriptors
  <2> QED
    BY <1>6, <1>8, <1>9, <2>1, <2>2 DEF OfDescriptors
<1>13. OfInodes(reader)'
  <2>1. \A j \in 1..Len(sockets) : j \in 1..MaxSockets
    BY <1>5, TraceAssumption DEF TraceInv, Kernel
  <2>2. ASSUME NEW j \in 1..Len(sockets), sockets'[j].peer # Unknown
        PROVE  Placed(q, j)'
    <3>1. CASE j = i
      BY <1>9, <1>11, <2>1, <2>2, <3>1 DEF Placed
    <3>2. CASE j # i
      <4>1. Placed(r, j)
        BY <1>6, <1>9, <2>2, <3>2 DEF OfInodes
      <4>2. q.peer[j] = r.peer[j] /\ sockets'[j].peer = sockets[j].peer /\ sockets'[j].by = sockets[j].by
        BY <1>9, <1>11, <2>1, <3>2
      <4> QED
        BY <1>4, <1>8, <4>1, <4>2 DEF Placed
    <3> QED
      BY <3>1, <3>2
  <2>3. \A j \in 1..Len(sockets) :
           /\ sockets'[j].family = "pair" =>
                 q.pairs /\ q.family[j] = Unknown /\ q.peer[j] = Unknown /\ j \notin q.network
           /\ q.family[j] = "AF_NETLINK" => sockets'[j].family = "AF_NETLINK"
    BY <1>4, <1>6, <1>7, <1>8, <1>9, <1>11, <2>1 DEF OfInodes
  <2>4. \A j \in 1..MaxSockets : j > Len(sockets) => q.family[j] = Unknown /\ q.peer[j] = Unknown
    BY <1>5, <1>6, <1>8, <1>11 DEF OfInodes
  <2>5. q.network \subseteq 1..Len(sockets)
    BY <1>5, <1>6, <1>7, <1>8 DEF OfInodes
  <2> QED
    BY <1>4, <1>9, <2>2, <2>3, <2>4, <2>5 DEF OfInodes
<1>14. (sent \subseteq (1..Len(sockets)) \X Processes)'
  BY <1>4, <1>9 DEF TraceInv
<1>15. Told(reader)'
  <2>1. \A s \in sent : sockets'[s[1]].by = sockets[s[1]].by
    BY <1>9 DEF TraceInv
  <2> QED
    BY <1>4, <1>6, <1>7, <1>8, <2>1 DEF TraceInv, Told
<1>16. reader' \in ReaderType
  BY <1>4, <1>8
<1> QED
  BY <1>10, <1>12, <1>13, <1>14, <1>15, <1>16 DEF TraceInv

-----------------------------------------------------------------------------
(* Calls that make and close descriptors.                                   *)

\* A new inode, of which the reader knows nothing yet, beside those there were.
LEMMA InodesStand ==
    ASSUME TraceInv, NEW k \in Keys, NEW family \in {"AF_INET", "AF_NETLINK", "pair"},
           NEW peer \in Peers \cup {Unknown}, NewSocket(k, family, peer),
           sent' = sent, landed' = landed, blurred \subseteq blurred',
           reader'.family = reader.family, reader'.peer = reader.peer, reader'.network = reader.network,
           reader'.writes = reader.writes, reader'.issues = reader.issues, reader.pairs => reader'.pairs,
           \A j \in Keys : fd'[j] \in {fd[j], Len(sockets) + 1},
           \A j \in Keys : fd[j] # 0 /\ reader.accepted[j] # Unknown /\ fd'[j] = fd[j] =>
                              reader'.accepted[j] # Unknown \/ fd[j] \in blurred',
           family = "pair" => reader'.pairs /\ peer = Unknown,
           peer # Unknown => \A j \in Keys : fd'[j] = Len(sockets) + 1 => reader'.accepted[j] # Unknown
    PROVE  OfInodes(reader)' /\ (sent \subseteq (1..Len(sockets)) \X Processes)' /\ Told(reader)'
<1>1. PICK n : n = Len(sockets) + 1
  OBVIOUS
<1>2. /\ Len(sockets) \in Nat /\ Len(sockets') = n /\ n \in 1..MaxSockets /\ n \notin 1..Len(sockets)
      /\ \A i \in 1..Len(sockets) : sockets'[i] = sockets[i] /\ i \in 1..MaxSockets
      /\ sockets'[n].family = family /\ sockets'[n].peer = peer
      /\ \A i \in 1..Len(sockets') : i \in 1..Len(sockets) \/ i = n
  <2>1. Kernel
    BY DEF TraceInv
  <2>2. /\ Len(sockets) \in Nat /\ Len(sockets') = Len(sockets) + 1 /\ Len(sockets') <= MaxSockets
        /\ \A i \in 1..Len(sockets) : sockets'[i] = sockets[i]
        /\ sockets'[Len(sockets) + 1] = [family |-> family, peer |-> peer, by |-> k[1]]
    BY <2>1, SocketMade
  <2> QED
    BY <1>1, <2>2, TraceAssumption
<1>3. reader.family[n] = Unknown /\ reader.peer[n] = Unknown /\ n \notin reader.network
  BY <1>1, <1>2 DEF TraceInv, OfInodes
<1>4. ASSUME NEW i \in 1..Len(sockets), sockets'[i].peer # Unknown
      PROVE  Placed(reader, i)'
  <2>1. Placed(reader, i)
    BY <1>2, <1>4 DEF TraceInv, OfInodes
  <2>2. ASSUME \A j \in Keys : j[1] = sockets[i].by /\ fd[j] = i => reader.accepted[j] # Unknown, i \notin blurred'
        PROVE  \A j \in Keys : j[1] = sockets[i].by /\ fd'[j] = i => reader'.accepted[j] # Unknown
    BY <1>1, <1>2, <2>2
  <2> QED
    BY <1>2, <2>1, <2>2 DEF Placed
<1>5. sockets'[n].peer # Unknown => Placed(reader, n)'
  BY <1>1, <1>2, <1>3 DEF Placed
<1>6. OfInodes(reader)'
  <2>1. ASSUME NEW i \in 1..Len(sockets')
        PROVE  /\ sockets'[i].family = "pair" => /\ reader'.pairs /\ reader'.family[i] = Unknown
                                                 /\ reader'.peer[i] = Unknown /\ i \notin reader'.network
               /\ reader'.family[i] = "AF_NETLINK" => sockets'[i].family = "AF_NETLINK"
    <3>1. CASE i = n
      BY <1>2, <1>3, <3>1 DEF Unknown
    <3>2. CASE i \in 1..Len(sockets)
      BY <1>2, <3>2 DEF TraceInv, OfInodes
    <3> QED
      BY <1>2, <3>1, <3>2
  <2>2. \A i \in 1..MaxSockets : i > Len(sockets') => reader'.family[i] = Unknown /\ reader'.peer[i] = Unknown
    BY <1>1, <1>2 DEF TraceInv, OfInodes
  <2>3. reader'.network \subseteq 1..Len(sockets')
    BY <1>1, <1>2 DEF TraceInv, OfInodes
  <2>4. \A i \in 1..Len(sockets') : sockets'[i].peer # Unknown => Placed(reader, i)'
    BY <1>2, <1>4, <1>5
  <2> QED
    BY <2>1, <2>2, <2>3, <2>4 DEF OfInodes
<1>7. (sent \subseteq (1..Len(sockets)) \X Processes)'
  BY <1>1, <1>2 DEF TraceInv
<1>8. Told(reader)'
  <2>1. \A s \in sent : sockets'[s[1]].by = sockets[s[1]].by
    BY <1>2 DEF TraceInv
  <2> QED
    BY <2>1 DEF TraceInv, Told
<1> QED
  BY <1>6, <1>7, <1>8

LEMMA TraceInvSocket ==
    ASSUME TraceInv, NEW k \in Keys, NEW family \in {"AF_INET", "AF_NETLINK"}, Socket(k, family)
    PROVE  TraceInv'
<1>1. PICK n : n = Len(sockets) + 1
  OBVIOUS
<1>2. /\ NewSocket(k, family, Unknown) /\ fd[k] = 0
      /\ fd' = [fd EXCEPT ![k] = n]
      /\ reader' = [reader EXCEPT !.made[k] = family, !.accepted[k] = Unknown]
      /\ UNCHANGED <<forked, sent, blurred, landed>>
  BY <1>1 DEF Socket, NewSocket, Free
<1>3. Kernel /\ Len(sockets) \in Nat /\ reader \in ReaderType /\ fd \in [Keys -> 0..Len(sockets)]
  BY DEF TraceInv, Kernel
<1>4. /\ reader'.over = reader.over /\ reader'.pairs = reader.pairs
      /\ reader'.made = [reader.made EXCEPT ![k] = family]
      /\ reader'.accepted = [reader.accepted EXCEPT ![k] = Unknown]
      /\ reader'.family = reader.family /\ reader'.peer = reader.peer /\ reader'.network = reader.network
      /\ reader'.writes = reader.writes /\ reader'.issues = reader.issues
  BY <1>2, <1>3 DEF ReaderType
<1>5. \A j \in Keys : /\ fd'[j] = IF j = k THEN n ELSE fd[j]
                      /\ reader'.made[j] = IF j = k THEN family ELSE reader.made[j]
                      /\ reader'.accepted[j] = IF j = k THEN Unknown ELSE reader.accepted[j]
  BY <1>2, <1>3, <1>4 DEF ReaderType, Made, Accepted
<1>6. fd' \in [Keys -> 0..Len(sockets) + 1]
  BY <1>1, <1>2, <1>3
<1>7. Kernel'
  BY <1>2, <1>3, <1>6, KernelGrows
<1>8. reader' \in ReaderType
  <2>1. PICK made : made = [reader.made EXCEPT ![k] = family]
    OBVIOUS
  <2>2. PICK accepted : accepted = [reader.accepted EXCEPT ![k] = Unknown]
    OBVIOUS
  <2>3. reader' = [reader EXCEPT !.made = made, !.accepted = accepted]
    BY <1>2, <1>3, <2>1, <2>2 DEF ReaderType
  <2>4. made \in Made /\ accepted \in Accepted
    BY <1>3, <2>1, <2>2 DEF ReaderType, Made, Accepted
  <2> QED
    BY <1>3, <2>3, <2>4 DEF ReaderType
<1>9. OfDescriptors(reader)'
  <2>1. /\ \A i \in 1..Len(sockets) : sockets'[i] = sockets[i]
        /\ sockets'[n] = [family |-> family, peer |-> Unknown, by |-> k[1]]
    BY <1>1, <1>2, <1>3, SocketMade
  <2>2. \A j \in Keys : fd[j] # 0 => fd[j] \in 1..Len(sockets)
    BY <1>3
  <2>3. k[1] = "child" => forked
    BY <1>2 DEF NewSocket, Runs
  <2>4. sockets'[n].family = family
    BY <2>1
  <2> QED
    BY <1>2, <1>5, <2>1, <2>2, <2>3, <2>4 DEF TraceInv, OfDescriptors
<1>10. OfInodes(reader)' /\ (sent \subseteq (1..Len(sockets)) \X Processes)' /\ Told(reader)'
  <2>1. \A j \in Keys : /\ fd'[j] \in {fd[j], Len(sockets) + 1}
                        /\ fd[j] # 0 /\ reader.accepted[j] # Unknown /\ fd'[j] = fd[j] => reader'.accepted[j] # Unknown
    BY <1>1, <1>2, <1>5
  <2> QED
    BY <1>2, <1>4, <2>1, InodesStand
<1> QED
  BY <1>7, <1>8, <1>9, <1>10 DEF TraceInv

LEMMA TraceInvAccept ==
    ASSUME TraceInv, NEW k \in Keys, NEW peer \in Peers, NEW printed \in BOOLEAN, Accept(k, peer, printed)
    PROVE  TraceInv'
<1>1. PICK n : n = Len(sockets) + 1
  OBVIOUS
<1>2. PICK who : who = IF printed THEN peer ELSE "somewhere"
  OBVIOUS
<1>3. /\ NewSocket(k, "AF_INET", peer) /\ fd[k] = 0
      /\ fd' = [fd EXCEPT ![k] = n]
      /\ reader' = [reader EXCEPT !.made[k] = Unknown, !.accepted[k] = who]
      /\ UNCHANGED <<forked, sent, blurred, landed>>
  BY <1>1, <1>2 DEF Accept, NewSocket, Free
<1>4. Kernel /\ Len(sockets) \in Nat /\ reader \in ReaderType /\ fd \in [Keys -> 0..Len(sockets)]
  BY DEF TraceInv, Kernel
<1>5. /\ reader'.over = reader.over /\ reader'.pairs = reader.pairs
      /\ reader'.made = [reader.made EXCEPT ![k] = Unknown]
      /\ reader'.accepted = [reader.accepted EXCEPT ![k] = who]
      /\ reader'.family = reader.family /\ reader'.peer = reader.peer /\ reader'.network = reader.network
      /\ reader'.writes = reader.writes /\ reader'.issues = reader.issues
  BY <1>3, <1>4 DEF ReaderType
<1>6. \A j \in Keys : /\ fd'[j] = IF j = k THEN n ELSE fd[j]
                      /\ reader'.made[j] = IF j = k THEN Unknown ELSE reader.made[j]
                      /\ reader'.accepted[j] = IF j = k THEN who ELSE reader.accepted[j]
  BY <1>3, <1>4, <1>5 DEF ReaderType, Made, Accepted
<1>7. who # Unknown /\ peer # Unknown /\ who \in {"somewhere", peer}
  BY <1>2 DEF Peers, Unknown
<1>8. fd' \in [Keys -> 0..Len(sockets) + 1]
  BY <1>1, <1>3, <1>4
<1>9. Kernel'
  BY <1>3, <1>4, <1>8, KernelGrows
<1>10. reader' \in ReaderType
  <2>1. PICK made : made = [reader.made EXCEPT ![k] = Unknown]
    OBVIOUS
  <2>2. PICK accepted : accepted = [reader.accepted EXCEPT ![k] = who]
    OBVIOUS
  <2>3. reader' = [reader EXCEPT !.made = made, !.accepted = accepted]
    BY <1>3, <1>4, <2>1, <2>2 DEF ReaderType
  <2>4. made \in Made /\ accepted \in Accepted
    BY <1>4, <1>7, <2>1, <2>2 DEF ReaderType, Made, Accepted
  <2> QED
    BY <1>4, <2>3, <2>4 DEF ReaderType
<1>11. OfDescriptors(reader)'
  <2>1. /\ \A i \in 1..Len(sockets) : sockets'[i] = sockets[i]
        /\ sockets'[n] = [family |-> "AF_INET", peer |-> peer, by |-> k[1]]
    BY <1>1, <1>3, <1>4, SocketMade
  <2>2. \A j \in Keys : fd[j] # 0 => fd[j] \in 1..Len(sockets)
    BY <1>4
  <2>3. k[1] = "child" => forked
    BY <1>3 DEF NewSocket, Runs
  <2>4. sockets'[n].peer = peer /\ sockets'[n].by = k[1]
    BY <2>1
  <2> QED
    BY <1>3, <1>6, <1>7, <2>1, <2>2, <2>3, <2>4 DEF TraceInv, OfDescriptors
<1>12. OfInodes(reader)' /\ (sent \subseteq (1..Len(sockets)) \X Processes)' /\ Told(reader)'
  <2>1. \A j \in Keys : /\ fd'[j] \in {fd[j], Len(sockets) + 1}
                        /\ fd[j] # 0 /\ reader.accepted[j] # Unknown /\ fd'[j] = fd[j] => reader'.accepted[j] # Unknown
                        /\ fd'[j] = Len(sockets) + 1 => reader'.accepted[j] # Unknown
    <3>1. \A j \in Keys : fd[j] # n
      BY <1>1, <1>4
    <3> QED
      BY <1>1, <1>3, <1>6, <1>7, <3>1
  <2> QED
    BY <1>3, <1>5, <2>1, InodesStand
<1> QED
  BY <1>9, <1>10, <1>11, <1>12 DEF TraceInv

\* A pair makes the reader forget what its process has not used: what it accepted is blurred.
LEMMA TraceInvSocketPair ==
    ASSUME TraceInv, NEW k \in Keys, NEW other \in Keys, SocketPair(k, other)
    PROVE  TraceInv'
<1>1. PICK n : n = Len(sockets) + 1
  OBVIOUS
<1>2. PICK made : made = [j \in Keys |-> IF j[1] = k[1] THEN Unknown ELSE reader.made[j]]
  OBVIOUS
<1>3. PICK accepted : accepted = [j \in Keys |-> IF j[1] = k[1] THEN Unknown ELSE reader.accepted[j]]
  OBVIOUS
<1>4. Kernel /\ Len(sockets) \in Nat /\ reader \in ReaderType /\ fd \in [Keys -> 0..Len(sockets)]
  BY DEF TraceInv, Kernel
<1>5. /\ NewSocket(k, "pair", Unknown) /\ other[1] = k[1]
      /\ fd' = [fd EXCEPT ![k] = n, ![other] = n]
      /\ reader' = [reader EXCEPT !.pairs = TRUE, !.made = made, !.accepted = accepted]
      /\ blurred' = blurred \cup {fd[j] : j \in {x \in Keys : x[1] = k[1] /\ ~Free(x) /\ reader.accepted[x] # Unknown}}
      /\ UNCHANGED <<forked, sent, landed>>
  BY <1>1, <1>2, <1>3, <1>4 DEF SocketPair, ReaderType
<1>6. made \in Made /\ accepted \in Accepted
  BY <1>2, <1>3, <1>4 DEF ReaderType, Made, Accepted
<1>7. /\ reader' \in ReaderType /\ reader'.pairs /\ reader'.made = made /\ reader'.accepted = accepted
      /\ reader'.family = reader.family /\ reader'.peer = reader.peer /\ reader'.network = reader.network
      /\ reader'.writes = reader.writes /\ reader'.issues = reader.issues
  BY <1>4, <1>5, <1>6 DEF ReaderType
<1>8. \A j \in Keys : /\ fd'[j] = IF j = k \/ j = other THEN n ELSE fd[j]
                      /\ made[j] = IF j[1] = k[1] THEN Unknown ELSE reader.made[j]
                      /\ accepted[j] = IF j[1] = k[1] THEN Unknown ELSE reader.accepted[j]
  BY <1>2, <1>3, <1>4, <1>5
<1>9. fd' \in [Keys -> 0..Len(sockets) + 1]
  BY <1>1, <1>4, <1>5
<1>10. Kernel'
  BY <1>4, <1>5, <1>9, KernelGrows
<1>11. OfDescriptors(reader)'
  <2>1. \A i \in 1..Len(sockets) : sockets'[i] = sockets[i]
    BY <1>4, <1>5, SocketMade
  <2>2. \A j \in Keys : fd[j] # 0 => fd[j] \in 1..Len(sockets)
    BY <1>4
  <2> SUFFICES ASSUME NEW j \in Keys
               PROVE  /\ j[1] = "child" /\ ~forked' => reader'.made[j] = Unknown /\ reader'.accepted[j] = Unknown
                      /\ fd'[j] # 0 =>
                            /\ reader'.made[j] # Unknown =>
                                  reader'.made[j] = sockets'[fd'[j]].family /\ reader'.accepted[j] = Unknown
                            /\ reader'.accepted[j] # Unknown =>
                                  /\ sockets'[fd'[j]].by = j[1] /\ sockets'[fd'[j]].peer # Unknown
                                  /\ reader'.accepted[j] \in {"somewhere", sockets'[fd'[j]].peer}
    BY DEF OfDescriptors
  <2>3. CASE j[1] = k[1]
    BY <1>7, <1>8, <2>3
  <2>4. CASE j[1] # k[1]
    <3>1. fd'[j] = fd[j] /\ reader'.made[j] = reader.made[j] /\ reader'.accepted[j] = reader.accepted[j] /\ forked' = forked
      BY <1>5, <1>7, <1>8, <2>4
    <3>2. fd[j] # 0 => sockets'[fd[j]] = sockets[fd[j]]
      BY <2>1, <2>2
    <3> QED
      BY <3>1, <3>2 DEF TraceInv, OfDescriptors
  <2> QED
    BY <2>3, <2>4
<1>12. OfInodes(reader)' /\ (sent \subseteq (1..Len(sockets)) \X Processes)' /\ Told(reader)'
  <2>1. \A j \in Keys : fd'[j] \in {fd[j], Len(sockets) + 1}
    BY <1>1, <1>8
  <2>2. \A j \in Keys : fd[j] # 0 /\ reader.accepted[j] # Unknown /\ fd'[j] = fd[j] =>
                           reader'.accepted[j] # Unknown \/ fd[j] \in blurred'
    BY <1>5, <1>7, <1>8 DEF Free
  <2> QED
    BY <1>5, <1>7, <2>1, <2>2, InodesStand
<1> QED
  BY <1>7, <1>10, <1>11, <1>12 DEF TraceInv

LEMMA TraceInvClose ==
    ASSUME TraceInv, NEW k \in Keys, Close(k)
    PROVE  TraceInv'
<1>1. fd' = [fd EXCEPT ![k] = 0] /\ UNCHANGED <<sockets, forked, reader, sent, blurred, landed>>
  BY DEF Close
<1>2. Kernel /\ Len(sockets) \in Nat /\ fd \in [Keys -> 0..Len(sockets)]
  BY DEF TraceInv, Kernel
<1>3. \A j \in Keys : fd'[j] = IF j = k THEN 0 ELSE fd[j]
  BY <1>1, <1>2
<1>4. Kernel'
  BY <1>1, <1>2 DEF Kernel
<1>5. OfDescriptors(reader)'
  BY <1>1, <1>3 DEF TraceInv, OfDescriptors
<1>6. OfInodes(reader)'
  <2>1. ASSUME NEW i \in 1..Len(sockets), sockets[i].peer # Unknown
        PROVE  Placed(reader, i)'
    <3>1. Placed(reader, i)
      BY <2>1 DEF TraceInv, OfInodes
    <3>2. \A j \in Keys : fd'[j] = i => fd[j] = i
      BY <1>2, <1>3
    <3> QED
      BY <1>1, <3>1, <3>2 DEF Placed
  <2> QED
    BY <1>1, <2>1 DEF TraceInv, OfInodes
<1> QED
  BY <1>1, <1>4, <1>5, <1>6 DEF TraceInv, Told

\* A child has its parent's descriptors, and the reader holds nothing of them under its name.
LEMMA TraceInvFork == ASSUME TraceInv, Fork PROVE TraceInv'
<1>1. /\ ~forked /\ forked' = TRUE /\ fd' = [k \in Keys |-> fd[<<"parent", k[2]>>]]
      /\ UNCHANGED <<sockets, reader, sent, blurred, landed>>
  BY DEF Fork
<1>2. Kernel /\ Len(sockets) \in Nat /\ fd \in [Keys -> 0..Len(sockets)]
  BY DEF TraceInv, Kernel
<1>3. \A k \in Keys : <<"parent", k[2]>> \in Keys /\ (k[1] = "parent" => <<"parent", k[2]>> = k)
                      /\ (k[1] = "parent" \/ k[1] = "child")
  BY DEF Keys, Processes
<1>4. fd' \in [Keys -> 0..Len(sockets)] /\ \A k \in Keys : k[1] = "parent" => fd'[k] = fd[k]
  BY <1>1, <1>2, <1>3
<1>5. Kernel'
  BY <1>1, <1>2, <1>4 DEF Kernel
<1>6. OfDescriptors(reader)'
  <2>1. ASSUME NEW k \in Keys, k[1] = "child"
        PROVE  reader.made[k] = Unknown /\ reader.accepted[k] = Unknown
    BY <1>1, <2>1 DEF TraceInv, OfDescriptors
  <2>2. ASSUME NEW k \in Keys, k[1] # "child"
        PROVE  fd'[k] = fd[k]
    BY <1>3, <1>4, <2>2
  <2>3. \A k \in Keys : fd[k] # 0 =>
           /\ reader.made[k] # Unknown => reader.made[k] = sockets[fd[k]].family /\ reader.accepted[k] = Unknown
           /\ reader.accepted[k] # Unknown =>
                 /\ sockets[fd[k]].by = k[1] /\ sockets[fd[k]].peer # Unknown
                 /\ reader.accepted[k] \in {"somewhere", sockets[fd[k]].peer}
    BY DEF TraceInv, OfDescriptors
  <2> QED
    BY <1>1, <2>1, <2>2, <2>3 DEF OfDescriptors
<1>7. OfInodes(reader)'
  <2>1. ASSUME NEW i \in 1..Len(sockets), sockets[i].peer # Unknown
        PROVE  Placed(reader, i)'
    <3>1. Placed(reader, i)
      BY <2>1 DEF TraceInv, OfInodes
    <3>2. sockets[i].by = "parent"
      BY <1>1, <1>2 DEF Kernel
    <3> QED
      BY <1>1, <1>4, <3>1, <3>2 DEF Placed
  <2> QED
    BY <1>1, <2>1 DEF TraceInv, OfInodes
<1> QED
  BY <1>1, <1>5, <1>6, <1>7 DEF TraceInv, Told

-----------------------------------------------------------------------------
(* Calls that put a file somewhere, and the end.                            *)

\* The reader moves, and holds of sockets what it held.
LEMMA SocketsStand ==
    ASSUME TraceInv, UNCHANGED <<sockets, fd, forked, sent, blurred>>, reader' \in ReaderType, Told(reader)',
           reader'.pairs = reader.pairs, reader'.made = reader.made, reader'.accepted = reader.accepted,
           reader'.family = reader.family, reader'.peer = reader.peer, reader'.network = reader.network
    PROVE  TraceInv'
<1>1. Kernel'
  BY DEF TraceInv, Kernel
<1>2. OfDescriptors(reader)'
  BY DEF TraceInv, OfDescriptors
<1>3. OfInodes(reader)'
  BY DEF TraceInv, OfInodes, Placed
<1> QED
  BY <1>1, <1>2, <1>3 DEF TraceInv

LEMMA TraceInvLands ==
    ASSUME TraceInv, NEW call \in {"openat", "renameat", "rename"}, NEW how \in Printed,
           NEW again \in BOOLEAN, Lands(call, how, again)
    PROVE  TraceInv'
<1>1. PICK issues : issues = IF Resolvable(call, how) THEN reader.issues
                             ELSE reader.issues \cup {"relative-path-unresolved"}
  OBVIOUS
<1>2. PICK writes : writes = IF Resolvable(call, how) /\ again THEN reader.writes \cup {<<call, how>>} ELSE reader.writes
  OBVIOUS
<1>3. reader \in ReaderType
  BY DEF TraceInv
<1>4. /\ landed' = IF again THEN landed \cup {<<call, how>>} ELSE landed
      /\ reader' = [reader EXCEPT !.over = TRUE, !.issues = issues, !.writes = writes]
      /\ UNCHANGED <<sockets, fd, forked, sent, blurred>>
  BY <1>1, <1>2, <1>3 DEF Lands, ReaderType
<1>5. issues \in Issues /\ writes \in Landings
  BY <1>1, <1>2, <1>3 DEF ReaderType, Issues, Landings
<1>6. /\ reader' \in ReaderType /\ reader'.issues = issues /\ reader'.writes = writes
      /\ reader'.pairs = reader.pairs /\ reader'.made = reader.made /\ reader'.accepted = reader.accepted
      /\ reader'.family = reader.family /\ reader'.peer = reader.peer /\ reader'.network = reader.network
  BY <1>3, <1>4, <1>5 DEF ReaderType
<1>7. Told(reader)'
  BY <1>1, <1>2, <1>4, <1>6 DEF TraceInv, Told
<1> QED
  BY <1>4, <1>6, <1>7, SocketsStand

LEMMA TraceInvFinish == ASSUME TraceInv, Finish PROVE TraceInv'
<1>1. reader' = [reader EXCEPT !.over = TRUE] /\ UNCHANGED <<sockets, fd, forked, sent, blurred, landed>>
  BY DEF Finish
<1>2. /\ reader' \in ReaderType /\ reader'.issues = reader.issues /\ reader'.writes = reader.writes
      /\ reader'.pairs = reader.pairs /\ reader'.made = reader.made /\ reader'.accepted = reader.accepted
      /\ reader'.family = reader.family /\ reader'.peer = reader.peer /\ reader'.network = reader.network
  BY <1>1 DEF TraceInv, ReaderType
<1>3. Told(reader)'
  BY <1>1, <1>2 DEF TraceInv, Told
<1> QED
  BY <1>1, <1>2, <1>3, SocketsStand

LEMMA TraceInvNext == ASSUME TraceInv, [Tracing]_trace PROVE TraceInv'
<1>1. ASSUME NEW k \in Keys, NEW family \in {"AF_INET", "AF_NETLINK"}, Socket(k, family)
      PROVE  TraceInv'
  BY <1>1, TraceInvSocket
<1>2. ASSUME NEW k \in Keys, Close(k) PROVE TraceInv'
  BY <1>2, TraceInvClose
<1>3. ASSUME NEW k \in Keys, NEW other \in Keys, SocketPair(k, other) PROVE TraceInv'
  BY <1>3, TraceInvSocketPair
<1>4. ASSUME NEW k \in Keys, NEW peer \in Peers, NEW printed \in BOOLEAN, Accept(k, peer, printed)
      PROVE  TraceInv'
  BY <1>4, TraceInvAccept
<1>5. ASSUME NEW k \in Keys, NEW peer \in Peers, NEW succeeds \in BOOLEAN, ConnectTo(k, peer, succeeds)
      PROVE  TraceInv'
  BY <1>5, TraceInvConnectTo
<1>6. ASSUME NEW k \in Keys, NEW to \in Peers \cup {Unknown}, Send(k, to) PROVE TraceInv'
  BY <1>6, TraceInvSend
<1>7. ASSUME NEW call \in {"openat", "renameat", "rename"}, NEW how \in Printed,
             NEW again \in BOOLEAN, Lands(call, how, again)
      PROVE  TraceInv'
  BY <1>7, TraceInvLands
<1>8. CASE UNCHANGED trace
  <2>1. UNCHANGED <<sockets, fd, forked, reader, sent, blurred, landed>>
    BY <1>8 DEF trace
  <2> QED
    BY <2>1, SocketsStand DEF TraceInv, Told
<1> QED
  BY <1>1, <1>2, <1>3, <1>4, <1>5, <1>6, <1>7, <1>8, TraceInvFork, TraceInvFinish DEF Tracing

LEMMA TraceInvIsTrue == TraceInv => TraceIsTrue
<1> SUFFICES ASSUME TraceInv
             PROVE  TraceIsTrue
  OBVIOUS
<1>1. NothingIsLost
  BY DEF NothingIsLost, TraceInv, Told
<1>2. PairsAreQuiet
  BY DEF PairsAreQuiet, TraceInv, OfInodes
<1> QED
  BY <1>1, <1>2 DEF TraceIsTrue

-----------------------------------------------------------------------------
(* The evidence.  It is computed once, when the job ends, from rows that    *)
(* say whose they are by the decoy they carry.                              *)

Stages == {None, "sent", "gate", "slot", "run", "up", "removed", "over"}
Entries == [kind : {"lookup", "request"}, of : Jobs, ip : Addresses, early : BOOLEAN]
Opened == [of : Jobs, ip : Addresses, during : SUBSET [job : Jobs, early : BOOLEAN]]

Evidences == SUBSET Entries
Sendings == SUBSET {"lookup", "request"}
JobState == [at : Stages, host : Hosts \cup {None}, ip : Addresses \cup {None}, known : BOOLEAN,
             complete : BOOLEAN, evidence : Evidences, sent : Sendings]

Own(j, s) ==
    /\ \A r \in s.evidence : r.kind = "request" => r.of = j
    /\ s.complete => \A r \in s.evidence : ~r.early

HostInv ==
    /\ job \in [Jobs -> JobState] /\ \A j \in Jobs : Own(j, job[j])
    /\ address \in [Jobs -> Addresses \cup {None}]
    /\ heard \in [Jobs -> Evidences]
    /\ opening \subseteq Opened

LEMMA HostInvInit == Init => HostInv
<1> SUFFICES ASSUME Init
             PROVE  HostInv
  OBVIOUS
<1>1. NoJob \in JobState /\ \A j \in Jobs : Own(j, NoJob)
  BY DEF NoJob, JobState, Stages, Evidences, Sendings, Own
<1> QED
  BY <1>1 DEF Init, HostInv, Evidences

LEMMA JobMoves ==
    ASSUME HostInv, NEW j \in Jobs, NEW s \in JobState, Own(j, s), job' = [job EXCEPT ![j] = s],
           address' \in [Jobs -> Addresses \cup {None}], heard' \in [Jobs -> Evidences], opening' \subseteq Opened
    PROVE  HostInv'
<1>1. job' \in [Jobs -> JobState]
  BY DEF HostInv
<1>2. \A k \in Jobs : job'[k] = IF k = j THEN s ELSE job[k]
  BY DEF HostInv
<1>3. \A k \in Jobs : Own(k, job'[k])
  BY <1>2 DEF HostInv
<1> QED
  BY <1>1, <1>3 DEF HostInv

\* A job that begins, or ends without having observed, has no evidence.
LEMMA JobEmpties ==
    ASSUME HostInv, UNCHANGED hostSide, NEW j \in Jobs, NEW at \in Stages, NEW h \in Hosts \cup {None},
           job' = [job EXCEPT ![j] = [NoJob EXCEPT !.at = at, !.host = h]]
    PROVE  HostInv'
<1> DEFINE s == [NoJob EXCEPT !.at = at, !.host = h]
<1>1. s \in JobState /\ Own(j, s)
  BY DEF NoJob, JobState, Evidences, Sendings, Own
<1> HIDE DEF s
<1>2. job' = [job EXCEPT ![j] = s]
  BY DEF s
<1>3. /\ address' \in [Jobs -> Addresses \cup {None}] /\ heard' \in [Jobs -> Evidences]
      /\ opening' \subseteq Opened
  BY DEF HostInv, hostSide
<1> QED
  BY <1>1, <1>2, <1>3, JobMoves

LEMMA HostInvEnds ==
    ASSUME HostInv, UNCHANGED hostSide, NEW j \in Jobs, NEW result, Ends(j, result)
    PROVE  HostInv'
<1>1. job[j].host \in Hosts \cup {None}
  BY DEF HostInv, JobState
<1>2. job' = [job EXCEPT ![j] = [NoJob EXCEPT !.at = "over", !.host = job[j].host]]
  BY DEF Ends
<1>3. "over" \in Stages
  BY DEF Stages
<1> QED
  BY <1>1, <1>2, <1>3, JobEmpties

LEMMA HostInvTake ==
    ASSUME HostInv, NEW t \in Threads, Take(t), PoolInv
    PROVE  HostInv'
<1>1. PICK h \in Hosts : job' = [job EXCEPT ![<<t, thread[t].try>>] = [NoJob EXCEPT !.at = "sent", !.host = h]]
  BY DEF Take, Choices
<1>2. UNCHANGED hostSide /\ "sent" \in Stages
  BY DEF Take, Stages
<1>3. <<t, thread[t].try>> \in Jobs
  BY DEF PoolInv, ThreadState, Jobs
<1> QED
  BY <1>1, <1>2, <1>3, JobEmpties

\* What is reported is what the rows say after the foreign ones are taken out; it is complete only
\* if the start of the container is known, and then none is older.
LEMMA HostInvReport ==
    ASSUME HostInv, NEW j \in Jobs, Report(j)
    PROVE  HostInv'
<1>1. PICK clean \in BOOLEAN :
         job' = [job EXCEPT ![j].at = "over", ![j].ip = None, ![j].known = FALSE,
                            ![j].evidence = Evidence(j),
                            ![j].complete = clean /\ job[j].known /\ Foreign(j) = {}]
  BY DEF Report
<1>2. PICK complete \in BOOLEAN : complete = (clean /\ job[j].known /\ Foreign(j) = {})
  OBVIOUS
<1> DEFINE s == [job[j] EXCEPT !.at = "over", !.ip = None, !.known = FALSE,
                               !.evidence = Evidence(j), !.complete = complete]
<1>3. heard[j] \in Evidences /\ job[j] \in JobState
  BY DEF HostInv
<1>4. Evidence(j) \in Evidences
  BY <1>3 DEF Evidence, Rows, Evidences
<1>5. s \in JobState
  BY <1>3, <1>4 DEF JobState, Stages
<1>6. Own(j, s)
  <2>1. s.evidence = Evidence(j) /\ s.complete = complete
    BY <1>3 DEF JobState
  <2>2. \A r \in Evidence(j) : r.kind = "request" => r.of = j
    BY DEF Evidence, Foreign
  <2>3. complete => \A r \in Evidence(j) : ~r.early
    BY <1>2 DEF Evidence, Rows
  <2> QED
    BY <2>1, <2>2, <2>3 DEF Own
<1>7. job' = [job EXCEPT ![j] = s]
  BY <1>1, <1>2, <1>3 DEF HostInv, JobState
<1> HIDE DEF s
<1>8. /\ address' \in [Jobs -> Addresses \cup {None}] /\ heard' \in [Jobs -> Evidences]
      /\ opening' \subseteq Opened
  BY DEF Report, HostInv, Evidences
<1> QED
  BY <1>5, <1>6, <1>7, <1>8, JobMoves

\* Everything else a host does with a job leaves its evidence alone.
LEMMA HostInvWorks ==
    ASSUME HostInv, NEW j \in Jobs,
           Admit(j) \/ TakeSlot(j) \/ DockerRun(j) \/ ContainerStarts(j) \/ Remove(j)
    PROVE  HostInv'
<1>1. job[j] \in JobState /\ Own(j, job[j])
  BY DEF HostInv
<1>2. CASE Admit(j) \/ TakeSlot(j) \/ DockerRun(j) \/ Remove(j)
  <2>1. PICK at \in Stages : job' = [job EXCEPT ![j].at = at]
    BY <1>2 DEF Admit, TakeSlot, DockerRun, Remove, Stages
  <2> DEFINE s == [job[j] EXCEPT !.at = at]
  <2>2. s \in JobState /\ Own(j, s)
    BY <1>1 DEF JobState, Own
  <2>3. job' = [job EXCEPT ![j] = s]
    BY <2>1
  <2> HIDE DEF s
  <2>4. address' \in [Jobs -> Addresses \cup {None}]
    BY <1>2 DEF Admit, TakeSlot, DockerRun, Remove, hostSide, HostInv
  <2>5. UNCHANGED <<heard, opening>>
    BY <1>2 DEF Admit, TakeSlot, DockerRun, Remove, hostSide
  <2> QED
    BY <2>2, <2>3, <2>4, <2>5, JobMoves DEF HostInv
<1>3. CASE ContainerStarts(j)
  <2>1. PICK ip \in Addresses : /\ address' = [address EXCEPT ![j] = ip]
                                /\ \/ \E known \in BOOLEAN :
                                         job' = [job EXCEPT ![j].at = "up", ![j].ip = ip, ![j].known = known]
                                   \/ job' = [job EXCEPT ![j].at = "up"]
    BY <1>3 DEF ContainerStarts
  <2>2. PICK s \in JobState : Own(j, s) /\ job' = [job EXCEPT ![j] = s]
    <3>1. CASE \E known \in BOOLEAN : job' = [job EXCEPT ![j].at = "up", ![j].ip = ip, ![j].known = known]
      <4>1. PICK known \in BOOLEAN : job' = [job EXCEPT ![j].at = "up", ![j].ip = ip, ![j].known = known]
        BY <3>1
      <4> DEFINE s == [job[j] EXCEPT !.at = "up", !.ip = ip, !.known = known]
      <4>2. s \in JobState /\ Own(j, s)
        BY <1>1 DEF JobState, Own, Stages
      <4>3. job' = [job EXCEPT ![j] = s]
        BY <4>1
      <4> QED
        BY <4>2, <4>3
    <3>2. CASE job' = [job EXCEPT ![j].at = "up"]
      <4> DEFINE s == [job[j] EXCEPT !.at = "up"]
      <4>1. s \in JobState /\ Own(j, s)
        BY <1>1 DEF JobState, Own, Stages
      <4>2. job' = [job EXCEPT ![j] = s]
        BY <3>2
      <4> QED
        BY <4>1, <4>2
    <3> QED
      BY <2>1, <3>1, <3>2
  <2>3. address' \in [Jobs -> Addresses \cup {None}]
    BY <2>1 DEF HostInv
  <2>4. UNCHANGED <<heard, opening>>
    BY <1>3 DEF ContainerStarts
  <2> QED
    BY <2>2, <2>3, <2>4, JobMoves DEF HostInv
<1> QED
  BY <1>2, <1>3

\* The windows a moment falls in, and the entries it makes in them.
LEMMA EntriesMade ==
    ASSUME NEW j \in Jobs, NEW k \in Jobs, NEW kind \in {"lookup", "request"}, NEW ip \in Addresses,
           NEW windows \in SUBSET [job : Jobs, early : BOOLEAN]
    PROVE  Entry(j, kind, k, ip, windows) \subseteq Entries
BY DEF Entry, Entries

LEMMA HostInvSends ==
    ASSUME HostInv, NEW k \in Jobs, LookUp(k) \/ Connect(k)
    PROVE  HostInv'
<1>1. PICK kind \in {"lookup", "request"} : Sends(k, kind)
  BY DEF LookUp, Connect
<1>2. job[k] \in JobState /\ Own(k, job[k]) /\ address[k] \in Addresses
  BY <1>1 DEF HostInv, Sends
<1>3. PICK windows : windows = Windows(job[k].host)
  OBVIOUS
<1>4. windows \subseteq [job : Jobs, early : BOOLEAN]
  <2>1. ASSUME NEW w \in windows
        PROVE  w \in [job : Jobs, early : BOOLEAN]
    <3>1. PICK j \in Jobs : w = [job |-> j, early |-> job[j].at = "run"]
      BY <1>3, <2>1 DEF Windows, On
    <3>2. PICK early \in BOOLEAN : early = (job[j].at = "run")
      OBVIOUS
    <3>3. w = [job |-> j, early |-> early]
      BY <3>1, <3>2
    <3> QED
      BY <3>3
  <2> QED
    BY <2>1
<1> DEFINE s == [job[k] EXCEPT !.sent = {kind}]
<1>5. s \in JobState /\ Own(k, s) /\ job' = [job EXCEPT ![k] = s]
  BY <1>1, <1>2 DEF Sends, JobState, Sendings, Own
<1> HIDE DEF s
<1>6. address' \in [Jobs -> Addresses \cup {None}]
  BY <1>1 DEF Sends, HostInv
<1>7. CASE LookUp(k)
  <2>1. heard' = [j \in Jobs |-> heard[j] \cup Entry(j, "lookup", k, address[k], windows)] /\ opening' = opening
    BY <1>3, <1>7 DEF LookUp
  <2>2. \A j \in Jobs : heard[j] \cup Entry(j, "lookup", k, address[k], windows) \in Evidences
    BY <1>2, <1>4, EntriesMade DEF HostInv, Evidences
  <2>3. heard' \in [Jobs -> Evidences] /\ opening' \subseteq Opened
    BY <2>1, <2>2 DEF HostInv
  <2> QED
    BY <1>5, <1>6, <2>3, JobMoves
<1>8. CASE Connect(k)
  <2>1. opening' = opening \cup {[of |-> k, ip |-> address[k], during |-> windows]} /\ heard' = heard
    BY <1>3, <1>8 DEF Connect
  <2>2. [of |-> k, ip |-> address[k], during |-> windows] \in Opened
    BY <1>2, <1>4 DEF Opened
  <2>3. heard' \in [Jobs -> Evidences] /\ opening' \subseteq Opened
    BY <2>1, <2>2 DEF HostInv
  <2> QED
    BY <1>5, <1>6, <2>3, JobMoves
<1> QED
  BY <1>7, <1>8

LEMMA HostInvRecord ==
    ASSUME HostInv, NEW c \in opening, Record(c)
    PROVE  HostInv'
<1>1. c.of \in Jobs /\ c.ip \in Addresses /\ c.during \in SUBSET [job : Jobs, early : BOOLEAN]
  BY DEF HostInv, Opened
<1>2. /\ opening' = opening \ {c} /\ UNCHANGED <<job, address>>
      /\ heard' = [j \in Jobs |-> IF job[j].at = "over" THEN heard[j]
                                  ELSE heard[j] \cup Entry(j, "request", c.of, c.ip, c.during)]
  BY DEF Record
<1>3. \A j \in Jobs : /\ heard[j] \in Evidences
                      /\ heard[j] \cup Entry(j, "request", c.of, c.ip, c.during) \in Evidences
  BY <1>1, EntriesMade DEF HostInv, Evidences
<1>4. heard' \in [Jobs -> Evidences]
  BY <1>2, <1>3
<1> QED
  BY <1>2, <1>4 DEF HostInv

LEMMA HostInvNext ==
    ASSUME HostInv, PoolInv, [Next]_vars
    PROVE  HostInv'
<1>1. ASSUME NEW t \in Threads, Take(t) PROVE HostInv'
  BY <1>1, HostInvTake
<1>2. ASSUME NEW t \in Threads, GiveUp(t) PROVE HostInv'
  BY <1>2 DEF GiveUp, hostSide, HostInv
<1>3. ASSUME NEW j \in Jobs, Host(j) PROVE HostInv'
  <2>1. CASE Refuse(j) \/ AnsweredOutside(j) \/ FactBeforeRun(j) \/ SlotTimeout(j) \/ SlotEndsEarly(j) \/ RemoveFails(j)
    <3>1. UNCHANGED hostSide /\ \E result : Ends(j, result)
      BY <2>1 DEF Refuse, AnsweredOutside, FactBeforeRun, SlotTimeout, SlotEndsEarly, RemoveFails
    <3> QED
      BY <3>1, HostInvEnds
  <2> QED
    BY <1>3, <2>1, HostInvWorks, HostInvReport DEF Host
<1>4. ASSUME NEW j \in Jobs, LookUp(j) \/ Connect(j) PROVE HostInv'
  BY <1>4, HostInvSends
<1>5. ASSUME NEW j \in Jobs, ContainerExits(j) PROVE HostInv'
  <2>1. address' = [address EXCEPT ![j] = None] /\ UNCHANGED <<job, heard, opening>>
    BY <1>5 DEF ContainerExits
  <2> QED
    BY <2>1 DEF HostInv
<1>6. ASSUME NEW c \in opening, Record(c) PROVE HostInv'
  BY <1>6, HostInvRecord
<1>7. CASE UNCHANGED vars
  BY <1>7 DEF vars, HostInv
<1> QED
  BY <1>1, <1>2, <1>3, <1>4, <1>5, <1>6, <1>7 DEF Next

LEMMA HostInvIsItsOwn == HostInv => EvidenceIsItsOwn
BY DEF HostInv, Own, EvidenceIsItsOwn, DecoysAreItsOwn, NothingOfTheFormerHolder

-----------------------------------------------------------------------------
\* Whatever addresses Docker reuses, whenever a trap writes its record and whatever numbers and
\* sockets the package juggles with, what HISTOR publishes of a package is its own doing, all of
\* it when it says so: no decoy of a neighbour's, nothing of an address's former holder, no send
\* left out of a trace called complete, no pair of sockets taken for one.
THEOREM EvidenceStands == ASSUME IsFiniteSet(Threads) PROVE RunSpec => []EvidenceIsTrue
<1> DEFINE Inv == HostInv /\ PoolInv /\ TraceInv
<1>1. RunInit => Inv
  BY HostInvInit, PoolInvInit, TraceInvInit DEF RunInit
<1>2. Inv /\ [RunNext]_<<vars, trace, inContainer>> => Inv'
  <2> SUFFICES ASSUME Inv, [RunNext]_<<vars, trace, inContainer>>
               PROVE  Inv'
    OBVIOUS
  <2>1. [Next]_vars /\ [Tracing]_trace
    BY DEF RunNext
  <2> QED
    BY <2>1, HostInvNext, PoolInvNext, TraceInvNext
<1>3. Inv => EvidenceIsTrue
  BY HostInvIsItsOwn, TraceInvIsTrue DEF EvidenceIsTrue
<1> QED
  BY <1>1, <1>2, <1>3, PTL DEF RunSpec

=============================================================================
