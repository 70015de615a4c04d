--------------------------- MODULE Witness_proofs ---------------------------
(***************************************************************************)
(* Theorems about Witness, for every log, every number of witnesses and    *)
(* request threads and every order of their steps.                         *)
(***************************************************************************)
EXTENDS WitnessSubmit, SequenceTheorems, TLAPS

-----------------------------------------------------------------------------
(* Growth of trees.                                                         *)

LEMMA GrownFromItself ==
    ASSUME NEW S, NEW s \in Seq(S)
    PROVE  GrownFrom(s, s)
BY DEF GrownFrom

LEMMA GrownFromEmpty ==
    ASSUME NEW S, NEW s \in Seq(S), NEW e \in Seq(S), Len(e) = 0
    PROVE  GrownFrom(e, s)
BY DEF GrownFrom

LEMMA GrownFurther ==
    ASSUME NEW S, NEW s \in Seq(S), NEW t \in Seq(S), NEW u \in Seq(S),
           GrownFrom(s, t), GrownFrom(t, u)
    PROVE  GrownFrom(s, u)
BY DEF GrownFrom

\* Two trees a third one grew from are one history.
LEMMA CommonHistory ==
    ASSUME NEW S, NEW s \in Seq(S), NEW t \in Seq(S), NEW u \in Seq(S),
           GrownFrom(s, u), GrownFrom(t, u), Len(s) <= Len(t)
    PROVE  GrownFrom(s, t)
BY DEF GrownFrom

\* A tree that grew by nothing is the same tree.
LEMMA GrownByNothing ==
    ASSUME NEW S, NEW s \in Seq(S), NEW t \in Seq(S), GrownFrom(s, t), Len(s) = Len(t)
    PROVE  s = t
BY DEF GrownFrom

-----------------------------------------------------------------------------
(* The inductive invariant.  What was co-signed grew into the row; and a    *)
(* handler's verdict, reached before it holds any lock, still stands as     *)
(* long as the size it was reached for is still the size of the row: sizes  *)
(* never shrink, and an unchanged size means an unchanged tree.             *)

RowIsLatest ==
    \A s \in cosigned : row[s.witness] # None /\ GrownFrom(s.tree, row[s.witness].tree)

Stands(h) ==
    /\ h.old <= SizeOf(h.witness)
    /\ h.old <= Len(h.note.tree)
    /\ h.old = SizeOf(h.witness) /\ row[h.witness] # None
         => GrownFrom(row[h.witness].tree, h.note.tree)

VerdictsStand == \A t \in Handlers, h \in Verified : handler[t] = h => Stands(h)

\* A persist replaces the row, if there is one, by a tree that grew from it.
PersistGrows(t) ==
    LET h == handler[t] IN
    h.note # None /\ (row[h.witness] # None => GrownFrom(row[h.witness].tree, h.note.tree))

IInv == TypeOK /\ RowIsLatest /\ VerdictsStand

LEMMA InitIInv == Init => IInv
BY WitnessAssumption DEF Init, IInv, TypeOK, RowIsLatest, VerdictsStand

LEMMA SignIInv == ASSUME IInv, NEW grown \in Tree, Sign(grown) PROVE IInv'
<1>1. TypeOK'
  BY DEF IInv, TypeOK, Sign
<1>2. RowIsLatest' /\ VerdictsStand'
  BY DEF IInv, Sign, RowIsLatest, VerdictsStand, Stands, SizeOf, GrownFrom
<1> QED
  BY <1>1, <1>2 DEF IInv

\* What Accepts establishes about the request it accepts.
LEMMA AcceptedGrows ==
    ASSUME TypeOK, NEW w \in Witnesses, NEW request \in Request, Accepts(w, request)
    PROVE  /\ request.old = SizeOf(w)
           /\ request.old <= Len(request.note.tree)
           /\ row[w] # None => GrownFrom(row[w].tree, request.note.tree)
<1>1. request.old = SizeOf(w) /\ request.old <= Len(request.note.tree)
  BY DEF Accepts, WellFormed
<1>2. ASSUME row[w] # None
      PROVE  GrownFrom(row[w].tree, request.note.tree)
  <2>0. /\ row[w] \in Note /\ row[w].tree \in Seq(Leaves)
        /\ request.note.tree \in Seq(Leaves) /\ request.old \in Nat
        /\ request.old = Len(row[w].tree)
    BY <1>1, <1>2 DEF TypeOK, Note, Tree, Request, SizeOf
  <2>1. CASE request.old = 0
    BY <2>0, <2>1, GrownFromEmpty
  <2>2. CASE 0 < request.old /\ request.old = Len(request.note.tree)
    <3>1. request.note.tree = row[w].tree
      BY <2>0, <2>2 DEF Accepts, Proves
    <3> QED
      BY <2>0, <3>1, GrownFromItself
  <2>3. CASE 0 < request.old /\ request.old < Len(request.note.tree)
    <3>1. VerifyConsistency(request.proof, row[w].tree, request.note.tree)
      BY <2>0, <2>3 DEF Accepts, Proves
    <3> QED
      BY <3>1 DEF VerifyConsistency
  <2> QED
    BY <1>1, <2>0, <2>1, <2>2, <2>3
<1> QED
  BY <1>1, <1>2

LEMMA VerifyIInv ==
    ASSUME IInv, NEW t \in Handlers, NEW w \in Witnesses, NEW request \in Request,
           Verify(t, w, request)
    PROVE  IInv'
<1> DEFINE h == [witness |-> w, old |-> request.old, note |-> request.note]
<1>0. /\ h \in Verified /\ handler' = [handler EXCEPT ![t] = h]
      /\ UNCHANGED <<signed, row, cosigned>>
  BY DEF Verify, Verified, Request
<1>1. TypeOK'
  BY <1>0 DEF IInv, TypeOK
<1>2. RowIsLatest'
  BY <1>0 DEF IInv, RowIsLatest, GrownFrom
<1>3. Stands(h)
  <2>1. TypeOK /\ Accepts(w, request)
    BY DEF IInv, Verify
  <2>2. /\ request.old = SizeOf(w)
        /\ request.old <= Len(request.note.tree)
        /\ row[w] # None => GrownFrom(row[w].tree, request.note.tree)
    BY <2>1, AcceptedGrows
  <2>3. request.old \in Nat /\ h.witness = w /\ h.old = request.old /\ h.note = request.note
    BY DEF Request
  <2> QED
    BY <2>2, <2>3 DEF Stands
<1>4. VerdictsStand'
  BY <1>0, <1>3 DEF IInv, TypeOK, VerdictsStand, Stands, SizeOf, GrownFrom
<1> QED
  BY <1>1, <1>2, <1>4 DEF IInv

(***************************************************************************)
(* The compare-and-set is what makes the verdict stand: the size is still  *)
(* the old size, so the tree the row held when the proof was checked is    *)
(* the tree it holds now.  Other handlers' verdicts for the old size no    *)
(* longer matter once the size has changed.                                *)
(***************************************************************************)
LEMMA PersistIInv == ASSUME IInv, NEW t \in Handlers, Persist(t) PROVE IInv' /\ PersistGrows(t)
<1> PICK h \in Verified : handler[t] = h
  BY DEF IInv, TypeOK, Persist, Current
<1> PICK w \in Witnesses : h.witness = w
  BY DEF Verified
<1>0. /\ h.note \in Note /\ h.note.tree \in Seq(Leaves)
      /\ SizeOf(w) = h.old /\ Stands(h) /\ h.note # None
      /\ row' = [row EXCEPT ![w] = h.note]
      /\ cosigned' = cosigned \union {[witness |-> w, tree |-> h.note.tree]}
      /\ handler' = [handler EXCEPT ![t] = None]
      /\ signed' = signed
  BY WitnessAssumption DEF IInv, TypeOK, VerdictsStand, Persist, Current, Verified, Note, Tree
<1>1. row[w] # None => GrownFrom(row[w].tree, h.note.tree)
  BY <1>0 DEF Stands
<1>2. TypeOK'
  BY <1>0 DEF IInv, TypeOK, Note
<1>3. RowIsLatest'
  <2>1. ASSUME NEW s \in cosigned'
        PROVE  row'[s.witness] # None /\ GrownFrom(s.tree, row'[s.witness].tree)
    <3>1. CASE s \in cosigned /\ s.witness # w
      BY <1>0, <3>1 DEF IInv, TypeOK, RowIsLatest, GrownFrom
    <3>2. CASE s \in cosigned /\ s.witness = w
      <4>1. row[w] # None /\ GrownFrom(s.tree, row[w].tree) /\ s.tree \in Seq(Leaves)
        BY <3>2 DEF IInv, TypeOK, RowIsLatest, Tree
      <4>2. row[w].tree \in Seq(Leaves)
        BY <1>0, <4>1 DEF IInv, TypeOK, Note, Tree
      <4>3. GrownFrom(s.tree, h.note.tree)
        BY <1>0, <1>1, <4>1, <4>2, GrownFurther
      <4> QED
        BY <1>0, <3>2, <4>3 DEF IInv, TypeOK
    <3>3. CASE s = [witness |-> w, tree |-> h.note.tree]
      BY <1>0, <3>3, GrownFromItself DEF IInv, TypeOK
    <3> QED
      BY <1>0, <3>1, <3>2, <3>3
  <2> QED
    BY <2>1 DEF RowIsLatest
<1>4. SizeOf(w)' = Len(h.note.tree) /\ SizeOf(w) <= SizeOf(w)' /\ SizeOf(w) \in Nat
  <2>1. row'[w] = h.note /\ row[w] \in Note \union {None}
    BY <1>0 DEF IInv, TypeOK
  <2>2. Len(h.note.tree) \in Nat /\ SizeOf(w)' = Len(h.note.tree)
    BY <1>0, <2>1 DEF SizeOf
  <2>3. SizeOf(w) \in Nat /\ SizeOf(w) <= Len(h.note.tree)
    BY <1>0 DEF Stands, Verified
  <2> QED
    BY <2>2, <2>3
<1>5. VerdictsStand'
  <2>1. ASSUME NEW u \in Handlers, NEW g \in Verified, handler'[u] = g
        PROVE  Stands(g)'
    <3>0. Stands(g)
      BY <1>0, <2>1, WitnessAssumption DEF IInv, TypeOK, VerdictsStand
    <3>1. CASE g.witness # w
      <4>1. row'[g.witness] = row[g.witness]
        BY <1>0, <3>0, <3>1 DEF IInv, TypeOK, Verified
      <4> QED
        BY <3>0, <4>1 DEF Stands, SizeOf, GrownFrom
    <3>2. CASE g.witness = w
      <4>0. /\ g.old \in Nat /\ g.old <= SizeOf(w) /\ g.old <= Len(g.note.tree)
            /\ g.note.tree \in Seq(Leaves) /\ row'[w] = h.note
        BY <1>0, <3>0, <3>2 DEF IInv, TypeOK, Stands, Verified, Note, Tree
      <4>1. ASSUME g.old = SizeOf(w)'
            PROVE  GrownFrom(h.note.tree, g.note.tree)
        <5>1. g.old = SizeOf(w) /\ Len(h.note.tree) = SizeOf(w)
          BY <1>4, <4>0, <4>1 
        <5>2. CASE row[w] = None
          BY <1>0, <4>0, <5>1, <5>2, GrownFromEmpty DEF SizeOf
        <5>3. CASE row[w] # None
          <6>1. row[w].tree \in Seq(Leaves) /\ Len(row[w].tree) = Len(h.note.tree)
            BY <1>0, <5>1, <5>3 DEF IInv, TypeOK, Note, Tree, SizeOf
          <6>2. row[w].tree = h.note.tree
            BY <1>0, <1>1, <5>3, <6>1, GrownByNothing
          <6> QED
            BY <3>0, <3>2, <5>1, <5>3, <6>2 DEF Stands
        <5> QED
          BY <5>2, <5>3
      <4>2. g.old <= SizeOf(w)'
        BY <1>0, <1>4, <4>0
      <4> QED
        BY <3>0, <3>2, <4>0, <4>1, <4>2 DEF Stands, GrownFrom
    <3> QED
      BY <3>1, <3>2
  <2> QED
    BY <2>1 DEF VerdictsStand
<1> QED
  BY <1>0, <1>1, <1>2, <1>3, <1>5 DEF IInv, PersistGrows

LEMMA OutrunIInv == ASSUME IInv, NEW t \in Handlers, Outrun(t) PROVE IInv'
<1>0. handler' = [handler EXCEPT ![t] = None] /\ UNCHANGED <<signed, row, cosigned>>
  BY DEF Outrun
<1>1. TypeOK' /\ RowIsLatest'
  BY <1>0 DEF IInv, TypeOK, RowIsLatest, GrownFrom
<1>2. VerdictsStand'
  BY <1>0, WitnessAssumption DEF IInv, TypeOK, VerdictsStand, Stands, SizeOf, GrownFrom
<1> QED
  BY <1>1, <1>2 DEF IInv

LEMMA RestartIInv == ASSUME IInv, NEW w \in Witnesses, Restart(w) PROVE IInv'
<1>0. /\ UNCHANGED <<signed, row, cosigned>>
      /\ handler' = [t \in Handlers |->
                       IF handler[t] # None /\ handler[t].witness = w THEN None ELSE handler[t]]
  BY DEF Restart
<1>1. TypeOK' /\ RowIsLatest'
  BY <1>0 DEF IInv, TypeOK, RowIsLatest, GrownFrom
<1>2. VerdictsStand'
  BY <1>0, WitnessAssumption DEF IInv, TypeOK, VerdictsStand, Stands, SizeOf, GrownFrom
<1> QED
  BY <1>1, <1>2 DEF IInv

LEMMA StutterIInv == ASSUME IInv, UNCHANGED witnessVars PROVE IInv'
<1>1. TypeOK'
  BY DEF IInv, TypeOK, witnessVars
<1>2. RowIsLatest' /\ VerdictsStand'
  BY DEF IInv, RowIsLatest, VerdictsStand, Stands, SizeOf, GrownFrom, witnessVars
<1> QED
  BY <1>1, <1>2 DEF IInv

LEMMA NextIInv == ASSUME IInv, [Next]_witnessVars PROVE IInv'
BY SignIInv, VerifyIInv, PersistIInv, OutrunIInv, RestartIInv, StutterIInv DEF Next

\* The inductive invariant holds in every reachable state: what was co-signed grew into
\* the row, and a verdict stands as long as its old size is the size of the row.
THEOREM Invariance == Spec => []IInv
<1>1. Init => IInv
  BY InitIInv
<1>2. IInv /\ [Next]_witnessVars => IInv'
  BY NextIInv
<1> QED
  BY <1>1, <1>2, PTL DEF Spec

\* The type invariant of the witness.
THEOREM TypeCorrect == Spec => []TypeOK
<1>1. IInv => TypeOK
  BY DEF IInv
<1> QED
  BY <1>1, Invariance, PTL

LEMMA LatestIsCommon == IInv => CosignedIsOneHistory
<1> SUFFICES ASSUME IInv, NEW a \in cosigned, NEW b \in cosigned, a.witness = b.witness
             PROVE  GrownFrom(a.tree, b.tree) \/ GrownFrom(b.tree, a.tree)
  BY DEF CosignedIsOneHistory
<1> DEFINE u == row[a.witness].tree
<1>1. /\ a.tree \in Seq(Leaves) /\ b.tree \in Seq(Leaves) /\ u \in Seq(Leaves)
      /\ GrownFrom(a.tree, u) /\ GrownFrom(b.tree, u)
  BY DEF IInv, TypeOK, RowIsLatest, Note, Tree
<1>2. CASE Len(a.tree) <= Len(b.tree)
  BY <1>1, <1>2, CommonHistory
<1>3. CASE Len(b.tree) <= Len(a.tree)
  BY <1>1, <1>3, CommonHistory
<1> QED
  BY <1>1, <1>2, <1>3

\* No witness ever co-signs two histories of a log, whatever heads the log signs and
\* however requests, restarts and the two halves of the handlers interleave.
THEOREM OneHistoryIsCosigned == Spec => []CosignedIsOneHistory
BY Invariance, LatestIsCommon, PTL

LEMMA StepOnlyGrows ==
    ASSUME IInv, [Next]_witnessVars, NEW w \in Witnesses, row[w] # None
    PROVE  row'[w] # None /\ GrownFrom(row[w].tree, row'[w].tree)
<1>0. row[w].tree \in Seq(Leaves)
  BY DEF IInv, TypeOK, Note, Tree
<1>1. CASE row' = row
  BY <1>0, <1>1, GrownFromItself
<1>2. ASSUME NEW t \in Handlers, Persist(t)
      PROVE  row'[w] # None /\ GrownFrom(row[w].tree, row'[w].tree)
  <2>1. PersistGrows(t) /\ row' = [row EXCEPT ![handler[t].witness] = handler[t].note]
    BY <1>2, PersistIInv DEF Persist
  <2>2. handler[t].witness \in Witnesses /\ row \in [Witnesses -> Note \union {None}]
    BY <1>2 DEF IInv, TypeOK, Persist, Current, Verified
  <2>3. CASE handler[t].witness = w
    BY <2>1, <2>2, <2>3 DEF PersistGrows
  <2>4. CASE handler[t].witness # w
    BY <1>0, <2>1, <2>2, <2>4, GrownFromItself
  <2> QED
    BY <2>3, <2>4
<1>3. ASSUME Next, \A t \in Handlers : ~ Persist(t)
      PROVE  row' = row
  BY <1>3 DEF Next, Sign, Verify, Outrun, Restart
<1> QED
  BY <1>1, <1>2, <1>3 DEF witnessVars

\* The checkpoint a witness serves is only ever replaced by one that grew from it.
THEOREM RowOnlyGrows == Spec => ServedOnlyGrows
<1>1. IInv /\ [Next]_witnessVars =>
        [\A w \in Witnesses : row[w] # None =>
            row'[w] # None /\ GrownFrom(row[w].tree, row'[w].tree)]_witnessVars
  BY StepOnlyGrows
<1> QED
  BY <1>1, Invariance, PTL DEF Spec, ServedOnlyGrows
-----------------------------------------------------------------------------
(* The witness among its clients (WitnessSubmit).  Whatever they do is one  *)
(* of its own steps, so all of the above holds there; and what a client     *)
(* believes of a witness is never more than what the witness has done,      *)
(* because it learns a size only from an answer and sizes never shrink.     *)

\* What the log signed is within its bound, and a witness holds nothing else.
Signed ==
    /\ \A s \in signed : Len(s) <= MaxSize
    /\ \A w \in Witnesses : row[w] # None => row[w].tree \in signed
    /\ \A t \in Handlers : handler[t] # None => handler[t].note.tree \in signed

\* A run of the command: what it has in memory, and what it has been told.
Honest(r) ==
    /\ r.note.tree # <<>> /\ Len(r.note.tree) <= MaxSize
    /\ \A w \in Witnesses : r.state[w] <= SizeOf(w)
    /\ r.at \in {"sent", "waiting", "cosigned", "conflict"} => r.to \in Witnesses
    /\ r.at = "cosigned" => Len(r.note.tree) <= SizeOf(r.to)
    /\ r.at = "conflict" => r.old <= SizeOf(r.to)
    /\ r.at = "waiting" =>
         /\ r.thread \in Handlers /\ handler[r.thread] # None
         /\ handler[r.thread].witness = r.to /\ handler[r.thread].note = r.note

RunsAreHonest == \A c \in Clients : run[c] # None => Honest(run[c])

LogType ==
    /\ tree \in Tree /\ Len(tree) <= MaxSize
    /\ heads \in SUBSET (1..Len(tree))
    /\ lines \in SUBSET Line
    /\ restores \in 0..MaxRestores

ClientType ==
    /\ saved \in [Clients -> [Witnesses -> 0..MaxSize]]
    /\ run \in [Clients -> Run \union {None}]

SubmitInv == IInv /\ Signed /\ LogType /\ ClientType /\ RunsAreHonest /\ SavedIsCosigned

LEMMA InitSubmitInv == SubmitInit => SubmitInv
<1> SUFFICES ASSUME SubmitInit PROVE SubmitInv
  OBVIOUS
<1>1. IInv
  BY InitIInv DEF SubmitInit
<1>2. Signed /\ RunsAreHonest /\ SavedIsCosigned
  BY DEF SubmitInit, Init, Signed, RunsAreHonest, SavedIsCosigned, SizeOf
<1>3. LogType /\ ClientType
  BY SubmitAssumption DEF SubmitInit, LogType, ClientType, Tree
<1> QED
  BY <1>1, <1>2, <1>3 DEF SubmitInv

LEMMA SizesAreSmall == ASSUME IInv, Signed, NEW w \in Witnesses PROVE SizeOf(w) \in 0..MaxSize
<1>1. CASE row[w] = None
  BY <1>1, SubmitAssumption DEF SizeOf
<1>2. CASE row[w] # None
  <2>1. row[w].tree \in Seq(Leaves) /\ Len(row[w].tree) <= MaxSize
    BY <1>2 DEF IInv, TypeOK, Signed, Note, Tree
  <2>2. Len(row[w].tree) \in Nat
    BY <2>1, LenProperties
  <2> QED
    BY <1>2, <2>1, <2>2, SubmitAssumption DEF SizeOf
<1> QED
  BY <1>1, <1>2

LEMMA SizesGrow ==
    ASSUME IInv, IInv', [Next]_witnessVars, NEW w \in Witnesses
    PROVE  SizeOf(w) \in Nat /\ SizeOf(w)' \in Nat /\ SizeOf(w) <= SizeOf(w)'
<1>1. /\ row[w] # None => Len(row[w].tree) \in Nat
      /\ row'[w] # None => Len(row'[w].tree) \in Nat
  BY LenProperties DEF IInv, TypeOK, Note, Tree
<1>2. CASE row[w] = None
  BY <1>1, <1>2 DEF SizeOf
<1>3. CASE row[w] # None
  BY <1>1, <1>3, StepOnlyGrows DEF SizeOf, GrownFrom
<1> QED
  BY <1>2, <1>3

\* What a client sends is a request.
LEMMA RequestIsTyped ==
    ASSUME SubmitInv, NEW c \in Clients, At(c, "sent")
    PROVE  run[c].to \in Witnesses /\ RequestOf(c) \in Request
<1>1. run[c] \in Run /\ run[c].to \in Witnesses
  BY DEF SubmitInv, ClientType, RunsAreHonest, Honest, At
<1> QED
  BY <1>1 DEF RequestOf, Request, Run

LEMMA SubmitIsNext == ASSUME SubmitInv, [SubmitNext]_vars PROVE [Next]_witnessVars
<1>1. ASSUME NEW c \in Clients, Advance(c) \/ GiveUp(c) \/ Crash(c) PROVE UNCHANGED witnessVars
  BY <1>1 DEF Advance, Fetch, Submit, Refuse, ReceiveCosignature, ReceiveConflict, Save, Store, GiveUp, Crash
<1>2. CASE LogAppend \/ LogRestore \/ CalmDown \/ UNCHANGED vars
  BY <1>2 DEF LogAppend, LogRestore, CalmDown, vars, systemVars
<1>3. CASE LogPublish
  BY <1>3 DEF LogPublish, Next, SubmitInv, LogType
<1>4. ASSUME NEW c \in Clients, NEW t \in Handlers, Serve(c, t) PROVE Next
  BY <1>4, RequestIsTyped DEF Serve, Next
<1>5. ASSUME NEW t \in Handlers, Cosign(t) \/ Overtaken(t) PROVE Next
  BY <1>5 DEF Cosign, Overtaken, Next
<1>6. ASSUME NEW t \in Handlers, SomeoneSubmits(t) PROVE Next
  <2>1. PICK w \in Witnesses, s \in signed :
           \E old \in 0..Len(s) :
              \E proof \in {None, [first |-> SubSeq(s, 1, old), second |-> s]} :
                 Verify(t, w, [old |-> old, note |-> [tree |-> s, carried |-> {}], proof |-> proof])
    BY <1>6 DEF SomeoneSubmits
  <2>2. PICK old \in 0..Len(s) :
           \E proof \in {None, [first |-> SubSeq(s, 1, old), second |-> s]} :
              Verify(t, w, [old |-> old, note |-> [tree |-> s, carried |-> {}], proof |-> proof])
    BY <2>1
  <2>3. PICK proof \in {None, [first |-> SubSeq(s, 1, old), second |-> s]} :
           Verify(t, w, [old |-> old, note |-> [tree |-> s, carried |-> {}], proof |-> proof])
    BY <2>2
  <2>4. s \in Seq(Leaves) /\ SubSeq(s, 1, old) \in Seq(Leaves) /\ old \in Nat
    BY DEF SubmitInv, IInv, TypeOK, Tree
  <2>5. [old |-> old, note |-> [tree |-> s, carried |-> {}], proof |-> proof] \in Request
    BY <2>4 DEF Request, Note, Proof, Tree
  <2> QED
    BY <2>3, <2>5 DEF Next
<1>7. ASSUME NEW w \in Witnesses, WitnessRestart(w) PROVE Next
  BY <1>7 DEF WitnessRestart, Next
<1> QED
  BY <1>1, <1>2, <1>3, <1>4, <1>5, <1>6, <1>7 DEF SubmitNext, Proceed, Lose

-----------------------------------------------------------------------------
(* The steps of a client.                                                   *)

\* The witnesses stand still while one run of the command goes on.
LEMMA RunReplaced ==
    ASSUME ClientType, RunsAreHonest, UNCHANGED witnessVars, NEW c \in Clients, NEW r,
           run' = [run EXCEPT ![c] = r], r = None \/ (r \in Run /\ Honest(r)),
           saved' \in [Clients -> [Witnesses -> 0..MaxSize]]
    PROVE  ClientType' /\ RunsAreHonest'
<1>1. ClientType'
  BY DEF ClientType
<1>2. \A w \in Witnesses : SizeOf(w)' = SizeOf(w)
  BY DEF SizeOf, witnessVars
<1>3. handler' = handler
  BY DEF witnessVars
<1>4. ASSUME NEW q, Honest(q) PROVE Honest(q)'
  BY <1>2, <1>3, <1>4 DEF Honest
<1>5. ASSUME NEW d \in Clients, run'[d] # None PROVE Honest(run[d])'
  <2>1. CASE d = c
    <3>1. run'[d] = r /\ Honest(r)
      BY <1>5, <2>1 DEF ClientType
    <3>2. Honest(r)'
      BY <3>1, <1>4
    <3> QED
      BY <3>1, <3>2 DEF Honest
  <2>2. CASE d # c
    <3>1. run'[d] = run[d] /\ Honest(run[d])
      BY <1>5, <2>2 DEF ClientType, RunsAreHonest
    <3>2. PICK q : q = run[d]
      OBVIOUS
    <3>3. Honest(q)'
      BY <3>1, <3>2, <1>4
    <3> QED
      BY <3>1, <3>2, <3>3 DEF Honest
  <2> QED
    BY <2>1, <2>2
<1> QED
  BY <1>1, <1>5 DEF RunsAreHonest

LEMMA OverIsHonest ==
    ASSUME NEW r \in Run, r.note.tree # <<>>, Len(r.note.tree) <= MaxSize,
           \A w \in Witnesses : r.state[w] <= SizeOf(w)
    PROVE  Over(r) \in Run /\ Honest(Over(r))
<1>1. Over(r) = [r EXCEPT !.at = "fetched", !.todo = r.todo \ {r.to}, !.to = None, !.old = 0,
                          !.proof = None, !.again = FALSE, !.thread = None]
  BY DEF Over
<1>2. Over(r) \in Run
  <2>1. 0 \in 0..MaxSize
    BY SubmitAssumption
  <2>2. PICK q : q = [r EXCEPT !.at = "fetched", !.todo = r.todo \ {r.to}, !.to = None, !.old = 0]
    OBVIOUS
  <2>3. q \in Run
    BY <2>1, <2>2 DEF Run
  <2>4. Over(r) = [q EXCEPT !.proof = None, !.again = FALSE, !.thread = None]
    BY <1>1, <2>2
  <2> QED
    BY <2>3, <2>4 DEF Run
<1>3. Over(r).at = "fetched" /\ Over(r).note = r.note /\ Over(r).state = r.state
  BY <1>1 DEF Run
<1> QED
  BY <1>2, <1>3 DEF Honest

\* What the client believes after an answer, or after none.
LEMMA DoneIsHonest ==
    ASSUME SubmitInv, UNCHANGED <<witnessVars, saved>>, NEW c \in Clients, run[c] # None,
           NEW state \in [Witnesses -> 0..MaxSize], NEW kept \in SUBSET Witnesses,
           \A w \in Witnesses : state[w] <= SizeOf(w),
           Done(c, state, kept)
    PROVE  ClientType' /\ RunsAreHonest'
<1>1. run[c] \in Run /\ Honest(run[c])
  BY DEF SubmitInv, ClientType, RunsAreHonest
<1>2. PICK r : r = [run[c] EXCEPT !.state = state, !.kept = kept]
  OBVIOUS
<1>3. r \in Run /\ r.note = run[c].note /\ r.state = state
  BY <1>1, <1>2 DEF Run
<1>4. Over(r) \in Run /\ Honest(Over(r))
  BY <1>1, <1>3, OverIsHonest DEF Honest
<1>5. run' = [run EXCEPT ![c] = Over(r)]
  BY <1>2 DEF Done
<1> QED
  BY <1>4, <1>5, RunReplaced DEF SubmitInv, ClientType

\* The proof a log serves is of two of its own trees.
LEMMA PostIsHonest ==
    ASSUME SubmitInv, UNCHANGED <<witnessVars, saved>>, NEW c \in Clients, run[c] # None,
           NEW w \in Witnesses, NEW old \in 0..MaxSize, NEW again \in BOOLEAN,
           Post(c, w, old, again)
    PROVE  ClientType' /\ RunsAreHonest'
<1>1. run[c] \in Run /\ Honest(run[c])
  BY DEF SubmitInv, ClientType, RunsAreHonest
<1>2. PICK size : size = Len(run[c].note.tree)
  OBVIOUS
<1>3. size \in Nat
  BY <1>1, <1>2, LenProperties DEF Run, Note, Tree
<1>4. CASE (0 < old /\ old < size) /\ size > Len(tree)
  <2>1. PICK r : r = [run[c] EXCEPT !.to = w]
    OBVIOUS
  <2>2. r \in Run /\ r.note = run[c].note /\ r.state = run[c].state
    BY <1>1, <2>1 DEF Run
  <2>3. Over(r) \in Run /\ Honest(Over(r))
    BY <1>1, <2>2, OverIsHonest DEF Honest
  <2>4. run' = [run EXCEPT ![c] = Over(r)]
    BY <1>2, <1>4, <2>1 DEF Post
  <2> QED
    BY <2>3, <2>4, RunReplaced DEF SubmitInv, ClientType
<1>5. CASE ~ ((0 < old /\ old < size) /\ size > Len(tree))
  <2>1. PICK proof : proof = IF 0 < old /\ old < size THEN ProofServed(old, size) ELSE None
    OBVIOUS
  <2>2. proof \in Proof \union {None}
    <3>1. CASE 0 < old /\ old < size
      <4>1. tree \in Seq(Leaves) /\ Len(tree) \in Nat /\ old <= Len(tree) /\ size <= Len(tree)
        BY <1>3, <1>5, <3>1, LenProperties, SubmitAssumption DEF SubmitInv, LogType, Tree
      <4>2. SubSeq(tree, 1, old) \in Seq(Leaves) /\ SubSeq(tree, 1, size) \in Seq(Leaves)
        BY <1>3, <3>1, <4>1
      <4> QED
        BY <2>1, <3>1, <4>2 DEF ProofServed, Proof, TreeAt, Tree
    <3>2. CASE ~ (0 < old /\ old < size)
      BY <2>1, <3>2
    <3> QED
      BY <3>1, <3>2
  <2>3. PICK r : r = [run[c] EXCEPT !.at = "sent", !.to = w, !.old = old, !.again = again, !.proof = proof]
    OBVIOUS
  <2>4. r \in Run /\ r.note = run[c].note /\ r.state = run[c].state /\ r.at = "sent" /\ r.to = w
    BY <1>1, <2>2, <2>3 DEF Run
  <2>5. Honest(r)
    BY <1>1, <2>4 DEF Honest
  <2>6. run' = [run EXCEPT ![c] = r]
    BY <1>2, <1>5, <2>1, <2>3 DEF Post
  <2> QED
    BY <2>4, <2>5, <2>6, RunReplaced DEF SubmitInv, ClientType
<1> QED
  BY <1>4, <1>5

LEMMA ClientKeepsRuns ==
    ASSUME SubmitInv, NEW c \in Clients, Advance(c) \/ GiveUp(c) \/ Crash(c)
    PROVE  LogType' /\ ClientType' /\ RunsAreHonest' /\ SavedIsCosigned'
<1>1. /\ run[c] # None => run[c] \in Run /\ Honest(run[c])
      /\ LogType /\ ClientType /\ RunsAreHonest /\ SavedIsCosigned
  BY DEF SubmitInv, ClientType, RunsAreHonest
<1>2. /\ UNCHANGED <<tree, heads, lines, restores>> => LogType'
      /\ UNCHANGED <<row, saved>> => SavedIsCosigned'
  BY <1>1 DEF LogType, SavedIsCosigned, SizeOf
<1>3. \A w \in Witnesses : SizeOf(w) \in 0..MaxSize
  BY SizesAreSmall DEF SubmitInv
<1>4. CASE Fetch(c)
  <2>1. UNCHANGED <<witnessVars, logVars, saved>> /\ run[c] = None
    BY <1>4 DEF Fetch
  <2>2. PICK n \in heads :
           run' = [run EXCEPT ![c] =
             [at |-> "fetched", note |-> [tree |-> TreeAt(n), carried |-> Carried(n)],
              todo |-> Witnesses, state |-> saved[c], kept |-> {},
              to |-> None, old |-> 0, proof |-> None, again |-> FALSE, thread |-> None]]
    BY <1>4 DEF Fetch
  <2>3. PICK r : r = [at |-> "fetched", note |-> [tree |-> TreeAt(n), carried |-> Carried(n)],
                      todo |-> Witnesses, state |-> saved[c], kept |-> {},
                      to |-> None, old |-> 0, proof |-> None, again |-> FALSE, thread |-> None]
    OBVIOUS
  <2>4. tree \in Seq(Leaves) /\ Len(tree) \in Nat /\ Len(tree) <= MaxSize /\ n \in 1..Len(tree)
    BY <1>1, LenProperties DEF LogType, Tree
  <2>5. TreeAt(n) \in Seq(Leaves) /\ Len(TreeAt(n)) = n
    BY <2>4 DEF TreeAt
  <2>6. Carried(n) \in SUBSET Witnesses
    BY <1>1 DEF Carried, LogType, Line
  <2>7. saved[c] \in [Witnesses -> 0..MaxSize] /\ \A w \in Witnesses : saved[c][w] <= SizeOf(w)
    BY <1>1 DEF ClientType, SavedIsCosigned
  <2>8. r \in Run
    <3>1. [tree |-> TreeAt(n), carried |-> Carried(n)] \in Note
      BY <2>5, <2>6 DEF Note, Tree
    <3> QED
      BY <2>3, <2>7, <3>1, SubmitAssumption DEF Run
  <2>9. r.note.tree = TreeAt(n) /\ r.state = saved[c] /\ r.at = "fetched"
    BY <2>3
  <2>10. Honest(r)
    <3>1. TreeAt(n) # <<>>
      BY <2>4, <2>5
    <3>2. Len(TreeAt(n)) <= MaxSize
      BY <2>4, <2>5, SubmitAssumption
    <3> QED
      BY <2>7, <2>9, <3>1, <3>2 DEF Honest
  <2>11. run' = [run EXCEPT ![c] = r]
    BY <2>2, <2>3
  <2> QED
    BY <1>1, <1>2, <2>1, <2>8, <2>10, <2>11, RunReplaced DEF ClientType, logVars, witnessVars
<1>5. CASE Submit(c)
  <2>1. UNCHANGED <<witnessVars, logVars, saved>> /\ run[c] # None
    BY <1>5 DEF Submit, At
  <2>2. PICK w \in run[c].todo :
          IF run[c].state[w] > Len(run[c].note.tree)
          THEN run' = [run EXCEPT ![c].todo = @ \ {w}]
          ELSE Post(c, w, run[c].state[w], FALSE)
    BY <1>5 DEF Submit
  <2>3. w \in Witnesses /\ run[c].state[w] \in 0..MaxSize
    BY <1>1, <2>1 DEF Run
  <2>4. CASE run' = [run EXCEPT ![c].todo = @ \ {w}]
    <3>1. PICK r : r = [run[c] EXCEPT !.todo = run[c].todo \ {w}]
      OBVIOUS
    <3>2. /\ r \in Run /\ r.note = run[c].note /\ r.state = run[c].state /\ r.at = run[c].at
          /\ r.to = run[c].to /\ r.old = run[c].old /\ r.thread = run[c].thread
      BY <1>1, <2>1, <3>1 DEF Run
    <3>3. Honest(r)
      BY <1>1, <2>1, <3>2 DEF Honest
    <3>4. run' = [run EXCEPT ![c] = r]
      BY <2>4, <3>1
    <3> QED
      BY <1>1, <1>2, <2>1, <3>2, <3>3, <3>4, RunReplaced DEF ClientType, logVars, witnessVars
  <2>5. CASE Post(c, w, run[c].state[w], FALSE)
    BY <1>2, <2>1, <2>3, <2>5, PostIsHonest DEF logVars, witnessVars
  <2> QED
    BY <2>2, <2>4, <2>5
<1>6. ASSUME run[c] # None, UNCHANGED <<witnessVars, logVars, saved>>,
             NEW state \in [Witnesses -> 0..MaxSize], NEW kept \in SUBSET Witnesses,
             \A w \in Witnesses : state[w] <= SizeOf(w), Done(c, state, kept)
      PROVE  LogType' /\ ClientType' /\ RunsAreHonest' /\ SavedIsCosigned'
  BY <1>2, <1>6, DoneIsHonest DEF logVars, witnessVars
<1>7. run[c] # None => /\ run[c].state \in [Witnesses -> 0..MaxSize] /\ run[c].kept \in SUBSET Witnesses
                       /\ \A w \in Witnesses : run[c].state[w] <= SizeOf(w)
                       /\ Len(run[c].note.tree) \in 0..MaxSize
  <2> SUFFICES ASSUME run[c] # None
               PROVE  /\ run[c].state \in [Witnesses -> 0..MaxSize] /\ run[c].kept \in SUBSET Witnesses
                      /\ \A w \in Witnesses : run[c].state[w] <= SizeOf(w)
                      /\ Len(run[c].note.tree) \in 0..MaxSize
    OBVIOUS
  <2>1. run[c].note.tree \in Seq(Leaves) /\ Len(run[c].note.tree) <= MaxSize
    BY <1>1 DEF Run, Note, Tree, Honest
  <2>2. Len(run[c].note.tree) \in 0..MaxSize
    BY <2>1, LenProperties, SubmitAssumption
  <2> QED
    BY <1>1, <2>2 DEF Run, Honest
<1>8. CASE Refuse(c)
  <2>1. UNCHANGED <<witnessVars, logVars, saved>> /\ At(c, "sent") /\ run[c] # None
    BY <1>8 DEF Refuse, At
  <2>2. CASE run' = [run EXCEPT ![c].at = "conflict", ![c].proof = None, ![c].old = SizeOf(run[c].to)]
    <3>1. PICK r : r = [run[c] EXCEPT !.at = "conflict", !.proof = None, !.old = SizeOf(run[c].to)]
      OBVIOUS
    <3>2. run[c].to \in Witnesses /\ SizeOf(run[c].to) \in 0..MaxSize
      BY <1>1, <1>3, <2>1 DEF Honest, At
    <3>3. /\ r \in Run /\ r.note = run[c].note /\ r.state = run[c].state /\ r.at = "conflict"
          /\ r.to = run[c].to /\ r.old = SizeOf(run[c].to)
      BY <1>1, <2>1, <3>1, <3>2 DEF Run
    <3>4. Honest(r)
      BY <1>1, <2>1, <3>2, <3>3 DEF Honest
    <3>5. run' = [run EXCEPT ![c] = r]
      BY <2>2, <3>1
    <3> QED
      BY <1>1, <1>2, <2>1, <3>3, <3>4, <3>5, RunReplaced DEF ClientType, logVars, witnessVars
  <2>3. CASE Done(c, run[c].state, run[c].kept)
    BY <1>6, <1>7, <2>1, <2>3
  <2> QED
    BY <1>8, <2>2, <2>3 DEF Refuse
<1>9. CASE ReceiveCosignature(c)
  <2>1. UNCHANGED <<witnessVars, logVars, saved>> /\ At(c, "cosigned") /\ run[c] # None
    BY <1>9 DEF ReceiveCosignature, At
  <2>2. run[c].to \in Witnesses /\ Len(run[c].note.tree) <= SizeOf(run[c].to)
    BY <1>1, <2>1 DEF Honest, At
  <2>3. PICK state : state = [run[c].state EXCEPT ![run[c].to] = Len(run[c].note.tree)]
    OBVIOUS
  <2>4. state \in [Witnesses -> 0..MaxSize] /\ \A w \in Witnesses : state[w] <= SizeOf(w)
    BY <1>7, <2>1, <2>2, <2>3
  <2>5. Done(c, state, run[c].kept \union {run[c].to})
    BY <1>9, <2>3 DEF ReceiveCosignature
  <2> QED
    BY <1>6, <1>7, <2>1, <2>2, <2>4, <2>5
<1>10. CASE ReceiveConflict(c)
  <2>1. UNCHANGED <<witnessVars, logVars, saved>> /\ At(c, "conflict") /\ run[c] # None
    BY <1>10 DEF ReceiveConflict, At
  <2>2. run[c].to \in Witnesses /\ run[c].old <= SizeOf(run[c].to) /\ run[c].old \in 0..MaxSize
    BY <1>1, <2>1 DEF Honest, At, Run
  <2>3. CASE Done(c, run[c].state, run[c].kept)
    BY <1>6, <1>7, <2>1, <2>3
  <2>4. CASE Done(c, [run[c].state EXCEPT ![run[c].to] = Larger(@, run[c].old)], run[c].kept)
    <3>1. PICK state : state = [run[c].state EXCEPT ![run[c].to] = Larger(run[c].state[run[c].to], run[c].old)]
      OBVIOUS
    <3>2. state \in [Witnesses -> 0..MaxSize] /\ \A w \in Witnesses : state[w] <= SizeOf(w)
      BY <1>7, <2>1, <2>2, <3>1 DEF Larger
    <3>3. Done(c, state, run[c].kept)
      BY <2>4, <3>1
    <3> QED
      BY <1>6, <1>7, <2>1, <3>2, <3>3
  <2>5. CASE Post(c, run[c].to, run[c].old, TRUE)
    BY <1>2, <2>1, <2>2, <2>5, PostIsHonest DEF logVars, witnessVars
  <2> QED
    BY <1>10, <2>3, <2>4, <2>5 DEF ReceiveConflict
<1>11. CASE Save(c)
  <2>1. UNCHANGED <<witnessVars, logVars>> /\ run[c] # None /\ saved' = [saved EXCEPT ![c] = run[c].state]
    BY <1>11 DEF Save, At
  <2>2. saved' \in [Clients -> [Witnesses -> 0..MaxSize]]
    BY <1>1, <1>7, <2>1 DEF ClientType
  <2>3. SavedIsCosigned'
    BY <1>1, <1>7, <2>1 DEF SavedIsCosigned, ClientType, SizeOf, witnessVars
  <2>4. PICK r : r = IF run[c].kept = {} THEN None ELSE [run[c] EXCEPT !.at = "saved"]
    OBVIOUS
  <2>5. r = None \/ (r \in Run /\ r.note = run[c].note /\ r.state = run[c].state /\ r.at = "saved")
    BY <1>1, <2>1, <2>4 DEF Run
  <2>6. r = None \/ (r \in Run /\ Honest(r))
    BY <1>1, <2>1, <2>5 DEF Honest
  <2>7. run' = [run EXCEPT ![c] = r]
    BY <1>11, <2>4 DEF Save
  <2> QED
    BY <1>1, <1>2, <2>1, <2>2, <2>3, <2>6, <2>7, RunReplaced DEF logVars
<1>12. CASE Store(c)
  <2>1. UNCHANGED <<witnessVars, tree, heads, restores, saved>> /\ run[c] # None /\ run' = [run EXCEPT ![c] = None]
    BY <1>12 DEF Store, At
  <2>2. PICK size : size = Len(run[c].note.tree)
    OBVIOUS
  <2>3. ASSUME size \in heads
        PROVE  {[size |-> size, witness |-> w, tree |-> run[c].note.tree] : w \in run[c].kept} \subseteq Line
    <3>1. size \in 1..MaxSize
      BY <1>7, <2>1, <2>2, <2>3 DEF SubmitInv, LogType
    <3> QED
      BY <1>1, <2>1, <3>1 DEF Run, Note, Line
  <2>4. lines' \in SUBSET Line
    BY <1>1, <1>12, <2>2, <2>3 DEF Store, LogType
  <2> QED
    BY <1>1, <1>2, <2>1, <2>4, RunReplaced DEF LogType, ClientType, witnessVars
<1>13. CASE GiveUp(c)
  BY <1>6, <1>7, <1>13 DEF GiveUp
<1>14. CASE Crash(c)
  <2>1. UNCHANGED <<witnessVars, logVars, saved>> /\ run' = [run EXCEPT ![c] = None]
    BY <1>14 DEF Crash
  <2> QED
    BY <1>1, <1>2, <2>1, RunReplaced DEF ClientType, logVars, witnessVars
<1> QED
  BY <1>4, <1>5, <1>8, <1>9, <1>10, <1>11, <1>12, <1>13, <1>14 DEF Advance

-----------------------------------------------------------------------------
(* The steps of the log, of the witnesses, and of others.                   *)

LEMMA LogKeepsTypes ==
    ASSUME SubmitInv, LogAppend \/ LogPublish \/ LogRestore
    PROVE  LogType'
<1>1. tree \in Seq(Leaves) /\ Len(tree) \in Nat /\ Len(tree) <= MaxSize /\ restores \in Leaves
  BY LenProperties, SubmitAssumption DEF SubmitInv, LogType, Tree
<1>2. CASE LogAppend
  <2>1. tree' = Append(tree, restores) /\ UNCHANGED <<heads, lines, restores>> /\ Len(tree) < MaxSize
    BY <1>2 DEF LogAppend
  <2>2. tree' \in Seq(Leaves) /\ Len(tree') = Len(tree) + 1
    BY <1>1, <2>1, AppendProperties
  <2>3. heads' \in SUBSET (1..Len(tree'))
    BY <1>1, <2>1, <2>2 DEF SubmitInv, LogType
  <2> QED
    BY <1>1, <2>1, <2>2, <2>3, SubmitAssumption DEF SubmitInv, LogType, Tree
<1>3. CASE LogPublish
  <2>1. heads' = heads \union {Len(tree)} /\ UNCHANGED <<tree, lines, restores>> /\ tree # <<>>
    BY <1>3 DEF LogPublish
  <2>2. Len(tree) \in 1..Len(tree)
    BY <1>1, <2>1, EmptySeq
  <2> QED
    BY <2>1, <2>2 DEF SubmitInv, LogType
<1>4. CASE LogRestore
  <2>1. PICK n \in heads \union {0} :
           n < Len(tree) /\ tree' = TreeAt(n) /\ heads' = heads \intersect (1..n)
             /\ lines' = {l \in lines : l.size <= n}
    BY <1>4 DEF LogRestore
  <2>2. n \in 0..Len(tree)
    BY <1>1, <2>1 DEF SubmitInv, LogType
  <2>3. tree' \in Seq(Leaves) /\ Len(tree') = n
    BY <1>1, <2>1, <2>2 DEF TreeAt
  <2>4. heads' \in SUBSET (1..Len(tree')) /\ Len(tree') <= MaxSize
    BY <1>1, <2>1, <2>2, <2>3, SubmitAssumption
  <2>5. restores' \in 0..MaxRestores
    BY <1>4, SubmitAssumption DEF LogRestore, SubmitInv, LogType
  <2> QED
    BY <2>1, <2>3, <2>4, <2>5 DEF SubmitInv, LogType, Tree
<1> QED
  BY <1>2, <1>3, <1>4

\* Only the log signs, and only what it is small enough to hold; a witness persists what it verified.
LEMMA StepSigned == ASSUME SubmitInv, IInv', [SubmitNext]_vars PROVE Signed'
<1>1. ASSUME UNCHANGED witnessVars PROVE Signed'
  BY <1>1 DEF witnessVars, SubmitInv, Signed
<1>2. CASE LogPublish
  BY <1>2 DEF LogPublish, Sign, SubmitInv, Signed, LogType
<1>3. ASSUME NEW t \in Handlers, NEW w, NEW request, Verify(t, w, request), request.note.tree \in signed
      PROVE  Signed'
  <2>1. /\ UNCHANGED <<signed, row>>
        /\ handler' = [handler EXCEPT ![t] = [witness |-> w, old |-> request.old, note |-> request.note]]
    BY <1>3 DEF Verify
  <2> QED
    BY <1>3, <2>1 DEF SubmitInv, Signed, IInv, TypeOK
<1>4. ASSUME NEW w, NEW request, Accepts(w, request) PROVE request.note.tree \in signed
  BY <1>4 DEF Accepts, WellFormed
<1>5. ASSUME NEW c \in Clients, NEW t \in Handlers, Serve(c, t) PROVE Signed'
  BY <1>3, <1>4, <1>5 DEF Serve, Verify
<1>6. ASSUME NEW t \in Handlers, SomeoneSubmits(t) PROVE Signed'
  BY <1>3, <1>4, <1>6 DEF SomeoneSubmits, Verify
<1>7. ASSUME NEW t \in Handlers, Cosign(t) PROVE Signed'
  <2>1. /\ handler[t] # None /\ UNCHANGED signed
        /\ row' = [row EXCEPT ![handler[t].witness] = handler[t].note]
        /\ handler' = [handler EXCEPT ![t] = None]
    BY <1>7 DEF Cosign, Persist, Current
  <2> QED
    BY <2>1 DEF SubmitInv, Signed, IInv, TypeOK
<1>8. ASSUME NEW t \in Handlers, Overtaken(t) PROVE Signed'
  <2>1. UNCHANGED <<signed, row>> /\ handler' = [handler EXCEPT ![t] = None]
    BY <1>8 DEF Overtaken, Outrun
  <2> QED
    BY <2>1 DEF SubmitInv, Signed, IInv, TypeOK
<1>9. ASSUME NEW w \in Witnesses, WitnessRestart(w) PROVE Signed'
  <2>1. UNCHANGED <<signed, row>> /\ \A t \in Handlers : handler'[t] \in {None, handler[t]}
    BY <1>9 DEF WitnessRestart, Restart
  <2> QED
    BY <2>1 DEF SubmitInv, Signed
<1>10. ASSUME NEW c \in Clients, Advance(c) \/ GiveUp(c) \/ Crash(c) PROVE UNCHANGED witnessVars
  BY <1>10 DEF Advance, Fetch, Submit, Refuse, ReceiveCosignature, ReceiveConflict, Save, Store, GiveUp, Crash
<1>11. CASE LogAppend \/ LogRestore \/ CalmDown \/ UNCHANGED vars
  BY <1>1, <1>11 DEF LogAppend, LogRestore, CalmDown, vars, systemVars
<1> QED
  BY <1>1, <1>2, <1>5, <1>6, <1>7, <1>8, <1>9, <1>10, <1>11 DEF SubmitNext, Proceed, Lose

\* A run that waits on no handler that moved stays honest: sizes only grow.
LEMMA StaysHonest ==
    ASSUME IInv, IInv', [Next]_witnessVars, ClientType, NEW r \in Run, Honest(r),
           r.at = "waiting" => handler'[r.thread] = handler[r.thread]
    PROVE  Honest(r)'
<1>1. \A w \in Witnesses : SizeOf(w) \in Nat /\ SizeOf(w)' \in Nat /\ SizeOf(w) <= SizeOf(w)'
  BY SizesGrow
<1>2. PICK size : size = [w \in Witnesses |-> SizeOf(w)]
  OBVIOUS
<1>3. PICK grown : grown = [w \in Witnesses |-> SizeOf(w)']
  OBVIOUS
<1>4. \A w \in Witnesses : size[w] = SizeOf(w) /\ grown[w] = SizeOf(w)' /\ size[w] \in Nat /\ grown[w] \in Nat /\ size[w] <= grown[w]
  BY <1>1, <1>2, <1>3
<1>5. /\ r.state \in [Witnesses -> 0..MaxSize] /\ r.old \in 0..MaxSize
      /\ r.note.tree \in Seq(Leaves) /\ Len(r.note.tree) \in Nat
  BY LenProperties DEF Run, Note, Tree
<1>6. \A w \in Witnesses : r.state[w] <= SizeOf(w)'
  <2> SUFFICES ASSUME NEW w \in Witnesses PROVE r.state[w] <= grown[w]
    BY <1>4
  <2>1. r.state[w] \in 0..MaxSize /\ r.state[w] <= size[w]
    BY <1>4, <1>5 DEF Honest
  <2> QED
    BY <1>4, <2>1, SubmitAssumption
<1>7. r.at = "cosigned" => Len(r.note.tree) <= SizeOf(r.to)'
  BY <1>4, <1>5 DEF Honest
<1>8. r.at = "conflict" => r.old <= SizeOf(r.to)'
  <2> SUFFICES ASSUME r.at = "conflict" PROVE r.old <= grown[r.to]
    BY <1>4 DEF Honest
  <2>1. r.to \in Witnesses /\ r.old <= size[r.to]
    BY <1>4 DEF Honest
  <2> QED
    BY <1>4, <1>5, <2>1, SubmitAssumption
<1> QED
  BY <1>6, <1>7, <1>8 DEF Honest

\* A client waits for the handler that took its request.
LEMMA ServeIsHonest ==
    ASSUME SubmitInv, IInv', [Next]_witnessVars, NEW c \in Clients, NEW t \in Handlers, Serve(c, t)
    PROVE  ClientType' /\ RunsAreHonest'
<1>1. run[c] \in Run /\ Honest(run[c]) /\ run[c].to \in Witnesses
  BY DEF SubmitInv, ClientType, RunsAreHonest, Honest, Serve, At
<1>2. /\ handler[t] = None
      /\ handler' = [handler EXCEPT ![t] = [witness |-> run[c].to, old |-> run[c].old, note |-> run[c].note]]
      /\ saved' = saved
  BY DEF Serve, Verify, RequestOf
<1>3. PICK r : r = [run[c] EXCEPT !.at = "waiting", !.proof = None, !.thread = t]
  OBVIOUS
<1>4. /\ r \in Run /\ r.note = run[c].note /\ r.state = run[c].state /\ r.at = "waiting"
      /\ r.to = run[c].to /\ r.thread = t
  BY <1>1, <1>3 DEF Run
<1>5. run' = [run EXCEPT ![c] = r]
  BY <1>3 DEF Serve
<1>6. /\ handler'[t] = [witness |-> r.to, old |-> run[c].old, note |-> r.note] /\ handler'[t] # None
      /\ handler'[t].witness = r.to /\ handler'[t].note = r.note
  <2>1. handler'[t] = [witness |-> r.to, old |-> run[c].old, note |-> r.note]
    BY <1>2, <1>4 DEF SubmitInv, IInv, TypeOK
  <2>2. [witness |-> r.to, old |-> run[c].old, note |-> r.note] \in Verified
    BY <1>1, <1>4, SubmitAssumption DEF Run, Verified
  <2> QED
    BY <2>1, <2>2, WitnessAssumption
<1>7. \A w \in Witnesses : r.state[w] <= SizeOf(w)'
  <2>1. \A w \in Witnesses : SizeOf(w)' = SizeOf(w)
    BY DEF Serve, Verify, SizeOf
  <2> QED
    BY <1>1, <1>4, <2>1 DEF Honest
<1>8. Honest(r)'
  BY <1>1, <1>4, <1>6, <1>7 DEF Honest
<1>9. ClientType'
  BY <1>2, <1>4, <1>5 DEF SubmitInv, ClientType
<1>10. ASSUME NEW d \in Clients, run'[d] # None PROVE Honest(run[d])'
  <2>1. CASE d = c
    <3>1. run'[d] = r
      BY <1>5, <2>1 DEF SubmitInv, ClientType
    <3> QED
      BY <1>8, <3>1 DEF Honest
  <2>2. CASE d # c
    <3>1. run'[d] = run[d] /\ run[d] \in Run /\ Honest(run[d])
      BY <1>5, <1>10, <2>2 DEF SubmitInv, ClientType, RunsAreHonest
    <3>2. PICK q \in Run : q = run[d]
      BY <3>1
    <3>3. q.at = "waiting" => handler'[q.thread] = handler[q.thread]
      BY <1>2, <3>1, <3>2 DEF Honest, SubmitInv, IInv, TypeOK
    <3>4. Honest(q)'
      BY <3>1, <3>2, <3>3, StaysHonest DEF SubmitInv
    <3> QED
      BY <3>1, <3>2, <3>4 DEF Honest
  <2> QED
    BY <2>1, <2>2
<1> QED
  BY <1>9, <1>10 DEF RunsAreHonest

\* The runs after a step of a handler: the one that waited has its answer, the others stay.
LEMMA AnswerIsHonest ==
    ASSUME SubmitInv, IInv', [Next]_witnessVars, NEW t \in Handlers, NEW at \in {"cosigned", "conflict"},
           NEW size \in 0..MaxSize, Answer(t, at, size),
           handler' = [handler EXCEPT ![t] = None],
           NEW w \in Witnesses, w = handler[t].witness, size <= SizeOf(w)',
           at = "cosigned" => Len(handler[t].note.tree) <= SizeOf(w)',
           saved' = saved
    PROVE  ClientType' /\ RunsAreHonest'
<1>1. ASSUME NEW d \in Clients, run[d] # None
      PROVE  run[d] \in Run /\ Honest(run[d])
  BY <1>1 DEF SubmitInv, ClientType, RunsAreHonest
<1>2. ASSUME NEW d \in Clients, At(d, "waiting"), run[d].thread = t
      PROVE  run'[d] \in Run /\ Honest(run[d])'
  <2>1. PICK r : r = [run[d] EXCEPT !.at = at, !.old = size, !.thread = None]
    OBVIOUS
  <2>2. run'[d] = r
    BY <1>2, <2>1 DEF Answer
  <2>3. run[d] \in Run /\ Honest(run[d])
    BY <1>1, <1>2 DEF At
  <2>4. /\ r \in Run /\ r.at = at /\ r.old = size /\ r.note = run[d].note /\ r.state = run[d].state
        /\ r.to = run[d].to
    BY <2>1, <2>3 DEF Run
  <2>5. r.to \in Witnesses /\ handler[t].witness = r.to /\ handler[t].note = r.note
    BY <1>2, <2>3, <2>4 DEF Honest, At
  <2>6. w = r.to
    BY <2>5
  <2>8. \A v \in Witnesses : r.state[v] <= SizeOf(v)'
    <3>1. \A v \in Witnesses : SizeOf(v) \in Nat /\ SizeOf(v)' \in Nat /\ SizeOf(v) <= SizeOf(v)'
      BY SizesGrow DEF SubmitInv
    <3> SUFFICES ASSUME NEW v \in Witnesses PROVE r.state[v] <= SizeOf(v)'
      OBVIOUS
    <3>2. PICK old, new : old = SizeOf(v) /\ new = SizeOf(v)'
      OBVIOUS
    <3>3. old \in Nat /\ new \in Nat /\ old <= new
      BY <3>1, <3>2
    <3>4. r.state[v] \in 0..MaxSize /\ r.state[v] <= old
      BY <2>3, <2>4, <3>2 DEF Honest, Run
    <3>5. r.state[v] <= new
      BY <3>3, <3>4, SubmitAssumption
    <3> QED
      BY <3>2, <3>5
  <2>7. at = "cosigned" => Len(r.note.tree) <= SizeOf(w)'
    BY <2>5
  <2>9. Honest(r)'
    BY <2>3, <2>4, <2>5, <2>6, <2>7, <2>8 DEF Honest
  <2> QED
    BY <2>2, <2>4, <2>9 DEF Honest
<1>3. ASSUME NEW d \in Clients, ~ (At(d, "waiting") /\ run[d].thread = t), run[d] # None
      PROVE  run'[d] \in Run /\ Honest(run[d])'
  <2>1. run'[d] = run[d]
    BY <1>3 DEF Answer
  <2>2. PICK q \in Run : q = run[d] /\ Honest(q)
    BY <1>1, <1>3
  <2>3. q.at = "waiting" => handler'[q.thread] = handler[q.thread]
    BY <1>3, <2>2 DEF At, Honest, SubmitInv, IInv, TypeOK
  <2>4. Honest(q)'
    BY <2>2, <2>3, StaysHonest DEF SubmitInv
  <2> QED
    BY <2>1, <2>2, <2>4 DEF Honest
<1>4. ASSUME NEW d \in Clients, run[d] = None PROVE run'[d] = None
  BY <1>4 DEF Answer, At
<1>5. run' \in [Clients -> Run \union {None}]
  <2>1. \A d \in Clients : run'[d] \in Run \union {None}
    BY <1>2, <1>3, <1>4
  <2>2. run' = [d \in Clients |-> run'[d]]
    BY DEF Answer
  <2> QED
    BY <2>1, <2>2
<1>6. ClientType'
  BY <1>5 DEF SubmitInv, ClientType
<1>7. RunsAreHonest'
  BY <1>2, <1>3, <1>4 DEF RunsAreHonest
<1> QED
  BY <1>6, <1>7

\* A restart of a witness leaves no client waiting for it.
LEMMA RestartIsHonest ==
    ASSUME SubmitInv, IInv', [Next]_witnessVars, NEW v \in Witnesses, WitnessRestart(v)
    PROVE  ClientType' /\ RunsAreHonest'
<1>1. /\ run' = [c \in Clients |-> IF At(c, "waiting") /\ run[c].to = v THEN Over(run[c]) ELSE run[c]]
      /\ saved' = saved /\ UNCHANGED row
      /\ handler' = [t \in Handlers |-> IF handler[t] # None /\ handler[t].witness = v THEN None ELSE handler[t]]
  BY DEF WitnessRestart, Restart
<1>2. ASSUME NEW d \in Clients, At(d, "waiting"), run[d].to = v
      PROVE  run'[d] \in Run /\ Honest(run[d])'
  <2>1. run[d] \in Run /\ Honest(run[d])
    BY <1>2 DEF At, SubmitInv, ClientType, RunsAreHonest
  <2>2. PICK q : q = Over(run[d])
    OBVIOUS
  <2>3. run'[d] = q
    BY <1>1, <1>2, <2>2
  <2>4. q \in Run /\ Honest(q) /\ q.at = "fetched"
    BY <2>1, <2>2, OverIsHonest DEF Honest, Over, Run
  <2>5. Honest(q)'
    BY <2>4, StaysHonest DEF SubmitInv
  <2> QED
    BY <2>3, <2>4, <2>5 DEF Honest
<1>3. ASSUME NEW d \in Clients, ~ (At(d, "waiting") /\ run[d].to = v), run[d] # None
      PROVE  run'[d] \in Run /\ Honest(run[d])'
  <2>1. run'[d] = run[d]
    BY <1>1, <1>3
  <2>2. PICK q \in Run : q = run[d] /\ Honest(q)
    BY <1>3 DEF SubmitInv, ClientType, RunsAreHonest
  <2>3. q.at = "waiting" => handler'[q.thread] = handler[q.thread]
    BY <1>1, <1>3, <2>2 DEF At, Honest
  <2>4. Honest(q)'
    BY <2>2, <2>3, StaysHonest DEF SubmitInv
  <2> QED
    BY <2>1, <2>2, <2>4 DEF Honest
<1>4. ASSUME NEW d \in Clients, run[d] = None PROVE run'[d] = None
  BY <1>1, <1>4 DEF At
<1>5. run' \in [Clients -> Run \union {None}]
  <2>1. \A d \in Clients : run'[d] \in Run \union {None}
    BY <1>2, <1>3, <1>4
  <2>2. run' = [d \in Clients |-> run'[d]]
    BY <1>1
  <2> QED
    BY <2>1, <2>2
<1>6. ClientType'
  BY <1>1, <1>5 DEF SubmitInv, ClientType
<1>7. RunsAreHonest'
  BY <1>2, <1>3, <1>4 DEF RunsAreHonest
<1> QED
  BY <1>6, <1>7

\* Nobody's run moves: the log's own steps, and other submitters.
LEMMA RunsStayHonest ==
    ASSUME SubmitInv, IInv', [Next]_witnessVars, UNCHANGED clientVars,
           \A t \in Handlers : handler[t] # None => handler'[t] = handler[t]
    PROVE  ClientType' /\ RunsAreHonest'
<1>1. ClientType'
  BY DEF SubmitInv, ClientType, clientVars
<1>2. ASSUME NEW d \in Clients, run'[d] # None PROVE Honest(run[d])'
  <2>1. PICK q \in Run : q = run[d] /\ Honest(q) /\ run'[d] = q
    BY <1>2 DEF SubmitInv, ClientType, RunsAreHonest, clientVars
  <2>2. q.at = "waiting" => handler'[q.thread] = handler[q.thread]
    BY <2>1 DEF Honest
  <2>3. Honest(q)'
    BY <2>1, <2>2, StaysHonest DEF SubmitInv
  <2> QED
    BY <2>1, <2>3 DEF Honest
<1> QED
  BY <1>1, <1>2 DEF RunsAreHonest

\* Nothing the client saved is undone: sizes only grow.
LEMMA SavedStays ==
    ASSUME SubmitInv, IInv', [Next]_witnessVars, saved' = saved
    PROVE  SavedIsCosigned'
<1> SUFFICES ASSUME NEW c \in Clients, NEW w \in Witnesses PROVE saved[c][w] <= SizeOf(w)'
  BY DEF SavedIsCosigned
<1>1. PICK old, new : old = SizeOf(w) /\ new = SizeOf(w)'
  OBVIOUS
<1>2. old \in Nat /\ new \in Nat /\ old <= new
  BY <1>1, SizesGrow DEF SubmitInv
<1>3. saved[c][w] \in 0..MaxSize /\ saved[c][w] <= old
  BY <1>1 DEF SubmitInv, ClientType, SavedIsCosigned
<1>4. saved[c][w] <= new
  BY <1>2, <1>3, SubmitAssumption
<1> QED
  BY <1>1, <1>4

LEMMA StepSubmitInv == ASSUME SubmitInv, [SubmitNext]_vars PROVE SubmitInv'
<1>1. [Next]_witnessVars /\ IInv'
  BY SubmitIsNext, NextIInv DEF SubmitInv
<1>2. Signed'
  BY <1>1, StepSigned
<1>3. UNCHANGED <<tree, heads, lines, restores>> => LogType'
  BY DEF SubmitInv, LogType
<1>4. ASSUME NEW c \in Clients, Advance(c) \/ GiveUp(c) \/ Crash(c)
      PROVE  LogType' /\ ClientType' /\ RunsAreHonest' /\ SavedIsCosigned'
  BY <1>4, ClientKeepsRuns
<1>5. CASE LogAppend \/ LogPublish \/ LogRestore
  <2>1. handler' = handler /\ UNCHANGED clientVars
    BY <1>5 DEF LogAppend, LogPublish, LogRestore, Sign, witnessVars
  <2>2. saved' = saved
    BY <2>1 DEF clientVars
  <2>3. LogType'
    BY <1>5, LogKeepsTypes
  <2> QED
    BY <1>1, <1>2, <2>1, <2>2, <2>3, RunsStayHonest, SavedStays DEF SubmitInv
<1>6. ASSUME NEW t \in Handlers, SomeoneSubmits(t)
      PROVE  LogType' /\ ClientType' /\ RunsAreHonest' /\ SavedIsCosigned'
  <2>1. UNCHANGED <<logVars, clientVars>>
    BY <1>6 DEF SomeoneSubmits
  <2>2. \A u \in Handlers : handler[u] # None => handler'[u] = handler[u]
    BY <1>6 DEF SomeoneSubmits, Verify, SubmitInv, IInv, TypeOK
  <2>3. UNCHANGED <<tree, heads, lines, restores>> /\ saved' = saved
    BY <2>1 DEF logVars, clientVars
  <2> QED
    BY <1>1, <1>3, <2>1, <2>2, <2>3, RunsStayHonest, SavedStays
<1>7. ASSUME NEW c \in Clients, NEW t \in Handlers, Serve(c, t)
      PROVE  LogType' /\ ClientType' /\ RunsAreHonest' /\ SavedIsCosigned'
  <2>1. UNCHANGED <<tree, heads, lines, restores>> /\ saved' = saved
    BY <1>7 DEF Serve, logVars
  <2> QED
    BY <1>1, <1>3, <1>7, <2>1, ServeIsHonest, SavedStays
<1>8. ASSUME NEW t \in Handlers, Cosign(t)
      PROVE  LogType' /\ ClientType' /\ RunsAreHonest' /\ SavedIsCosigned'
  <2>1. /\ handler[t] # None /\ handler' = [handler EXCEPT ![t] = None]
        /\ row' = [row EXCEPT ![handler[t].witness] = handler[t].note]
        /\ Answer(t, "cosigned", Len(handler[t].note.tree))
        /\ UNCHANGED <<tree, heads, lines, restores>> /\ saved' = saved
    BY <1>8 DEF Cosign, Persist, Current, logVars
  <2>2. handler[t].witness \in Witnesses /\ handler[t].note \in Note
    BY <2>1 DEF SubmitInv, IInv, TypeOK, Verified
  <2>3. PICK w \in Witnesses : w = handler[t].witness
    BY <2>2
  <2>4. PICK note \in Note : note = handler[t].note
    BY <2>2
  <2>5. Len(note.tree) \in 0..MaxSize
    <3>1. Len(note.tree) \in Nat /\ Len(note.tree) <= MaxSize
      BY <2>1, <2>4, LenProperties DEF Note, Tree, SubmitInv, Signed
    <3> QED
      BY <3>1, SubmitAssumption
  <2>6. SizeOf(w)' = Len(note.tree)
    <3>1. row'[w] = note /\ note # None
      BY <2>1, <2>3, <2>4, WitnessAssumption DEF SubmitInv, IInv, TypeOK
    <3> QED
      BY <3>1 DEF SizeOf
  <2>7. PICK size \in 0..MaxSize : size = Len(note.tree)
    BY <2>5
  <2>8. size <= SizeOf(w)' /\ Len(handler[t].note.tree) <= SizeOf(w)'
    BY <2>4, <2>5, <2>6, <2>7
  <2>9. Answer(t, "cosigned", size)
    BY <2>1, <2>4, <2>7
  <2>10. ClientType' /\ RunsAreHonest'
    BY <1>1, <2>1, <2>3, <2>7, <2>8, <2>9, AnswerIsHonest
  <2> QED
    BY <1>1, <1>3, <2>1, <2>10, SavedStays
<1>9. ASSUME NEW t \in Handlers, Overtaken(t)
      PROVE  LogType' /\ ClientType' /\ RunsAreHonest' /\ SavedIsCosigned'
  <2>1. /\ handler[t] # None /\ handler' = [handler EXCEPT ![t] = None]
        /\ UNCHANGED row
        /\ Answer(t, "conflict", SizeOf(handler[t].witness))
        /\ UNCHANGED <<tree, heads, lines, restores>> /\ saved' = saved
    BY <1>9 DEF Overtaken, Outrun, logVars
  <2>2. PICK w \in Witnesses : w = handler[t].witness
    BY <2>1 DEF SubmitInv, IInv, TypeOK, Verified
  <2>3. PICK size \in 0..MaxSize : size = SizeOf(w)
    BY SizesAreSmall DEF SubmitInv
  <2>4. size <= SizeOf(w)'
    BY <2>1, <2>3, SubmitAssumption DEF SizeOf
  <2>5. Answer(t, "conflict", size)
    BY <2>1, <2>2, <2>3
  <2>6. ClientType' /\ RunsAreHonest'
    BY <1>1, <2>1, <2>2, <2>4, <2>5, AnswerIsHonest
  <2> QED
    BY <1>1, <1>3, <2>1, <2>6, SavedStays
<1>10. ASSUME NEW w \in Witnesses, WitnessRestart(w)
      PROVE  LogType' /\ ClientType' /\ RunsAreHonest' /\ SavedIsCosigned'
  <2>1. UNCHANGED <<tree, heads, lines, restores>> /\ saved' = saved
    BY <1>10 DEF WitnessRestart, logVars
  <2> QED
    BY <1>1, <1>3, <1>10, <2>1, RestartIsHonest, SavedStays
<1>11. CASE CalmDown \/ UNCHANGED vars
  <2>1. UNCHANGED <<tree, heads, lines, restores, handler>> /\ UNCHANGED clientVars /\ saved' = saved
    BY <1>11 DEF CalmDown, vars, systemVars, logVars, clientVars, witnessVars
  <2> QED
    BY <1>1, <1>2, <1>3, <2>1, RunsStayHonest, SavedStays DEF SubmitInv
<1> QED
  BY <1>1, <1>2, <1>4, <1>5, <1>6, <1>7, <1>8, <1>9, <1>10, <1>11 DEF SubmitInv, SubmitNext, Proceed, Lose

LEMMA SubmitInvHolds == SubmitSpec => []SubmitInv
BY InitSubmitInv, StepSubmitInv, PTL DEF SubmitSpec

\* The log, the command and its state file, whatever was lost, killed or restored.
THEOREM SubmissionTypeCorrect == SubmitSpec => []SubmitTypeOK
<1>1. ASSUME SubmitInv, calm \in BOOLEAN PROVE SubmitTypeOK
  BY <1>1 DEF SubmitInv, IInv, LogType, ClientType, SubmitTypeOK
<1>2. SubmitInit => calm \in BOOLEAN
  BY DEF SubmitInit
<1>3. calm \in BOOLEAN /\ [SubmitNext]_vars => (calm \in BOOLEAN)'
  BY DEF SubmitNext, CalmDown, vars
<1> QED
  BY <1>1, <1>2, <1>3, SubmitInvHolds, PTL DEF SubmitSpec

(***************************************************************************)
(* Among its clients, other submitters and a log that is restored, the     *)
(* witness does what witness.py does by itself: every step is one of       *)
(* Witness or none of its business, so it co-signs one history and what it *)
(* serves only grows.                                                      *)
(***************************************************************************)
THEOREM SubmissionIsWitness == SubmitSpec => Spec
<1>1. SubmitInit => Init
  BY DEF SubmitInit
<1>2. SubmitInv /\ [SubmitNext]_vars => [Next]_witnessVars
  BY SubmitIsNext
<1> QED
  BY <1>1, <1>2, SubmitInvHolds, PTL DEF SubmitSpec, Spec

(***************************************************************************)
(* witness-submit skips a witness it believes to be ahead                  *)
(* (cosign_cli.py:77-78), and it never is less far than believed: a size   *)
(* is remembered only from an answer, and a late answer, a kill of either  *)
(* side or a restored log takes no size back.                              *)
(***************************************************************************)
THEOREM SavedSizesAreCosigned == SubmitSpec => []SavedIsCosigned
<1>1. SubmitInv => SavedIsCosigned
  BY DEF SubmitInv
<1> QED
  BY <1>1, SubmitInvHolds, PTL

=============================================================================
