------------------------ MODULE ExporterPollingProofs ------------------------
(* Proofs about ExporterPolling, for any configuration of the exporter.    *)
EXTENDS ExporterPolling, SequenceTheorems, TLAPS

\* stop() announces itself before it forces the leader event.
StopAnnounced == mpc \in {"stopping", "unblocking", "stopped"} => stopEvent

\* While a pod that is not stopping is demoted, its leader event is clear.
EventFollowsLeadership ==
    LeaderElection /\ epc \in {"follower", "clearing"} /\ ~stopEvent => ~event

\* What each step keeps: with the leader event clear no write passes the check
\* under _metric_lock, so what ClearGauges emptied stays empty.
FollowerInv == StopAnnounced /\ EventFollowsLeadership /\ FollowerHasNoSeries

LEMMA FollowerInit == Init => FollowerInv
  BY DEF Init, FollowerInv, StopAnnounced, EventFollowsLeadership, FollowerHasNoSeries,
         Nothing

LEMMA CollectKeeps ==
    ASSUME NEW t, FollowerInv, CollectStep(t)
    PROVE  FollowerInv'
  <1>1. UNCHANGED <<stopEvent, event, epc, mpc>>
    BY DEF CollectStep, EventsUnchanged
  <1>2. LeaderElection /\ ~event => UNCHANGED <<series, summary>>
    BY DEF CollectStep, CallReturns, CallFails, Update, Summarize, CanWrite, GaugesUnchanged
  <1>. QED
    BY <1>1, <1>2 DEF FollowerInv, StopAnnounced, EventFollowsLeadership, FollowerHasNoSeries,
                      Nothing

LEMMA PollKeeps ==
    ASSUME NEW t, FollowerInv, Poll(t)
    PROVE  FollowerInv'
  <1>1. CASE CollectStep(t)
    BY <1>1, CollectKeeps
  <1>2. CASE ~CollectStep(t)
    <2>1. UNCHANGED <<stopEvent, event, epc, mpc, series, summary>>
      BY <1>2 DEF Poll, Top, CheckLeader, Standby, Begin, CollectEnds, Wait,
                  IntervalElapses, PLocal, GaugesUnchanged
    <2>. QED
      BY <2>1 DEF FollowerInv, StopAnnounced, EventFollowsLeadership, FollowerHasNoSeries,
                  Nothing
  <1>. QED
    BY <1>1, <1>2

LEMMA LeadershipKeeps ==
    ASSUME FollowerInv, Leadership
    PROVE  FollowerInv'
  <1>. USE DEF FollowerInv, StopAnnounced, EventFollowsLeadership, FollowerHasNoSeries
  <1>1. CASE Elect
    BY <1>1 DEF Elect, EGo, ELocal
  <1>2. CASE WakePollers
    BY <1>2 DEF WakePollers, EGo
  <1>3. CASE CollectStep(Election)
    BY <1>3, CollectKeeps
  <1>4. CASE Promoted
    BY <1>4 DEF Promoted, EGo, ELocal
  <1>5. CASE Demote
    BY <1>5 DEF Demote, EGo, ELocal
  <1>6. CASE ClearGauges
    BY <1>6 DEF ClearGauges, EGo, EventsUnchanged, Nothing
  <1>. QED
    BY <1>1, <1>2, <1>3, <1>4, <1>5, <1>6 DEF Leadership, Promotion

LEMMA ShutdownKeeps ==
    ASSUME FollowerInv, Release \/ Shutdown
    PROVE  FollowerInv'
  <1>. USE DEF FollowerInv, StopAnnounced, EventFollowsLeadership, FollowerHasNoSeries,
               MGo, MLocal, GaugesUnchanged, Nothing
  <1>1. CASE Release
    BY <1>1 DEF Release, EventsUnchanged
  <1>2. CASE SetStop
    BY <1>2 DEF SetStop
  <1>3. CASE SetEvent
    BY <1>3 DEF SetEvent
  <1>4. CASE StopWakes
    BY <1>4 DEF StopWakes, SetWake
  <1>. QED
    BY <1>1, <1>2, <1>3, <1>4 DEF Shutdown

\* A demoted pod exposes no series and no totals until it is elected again or
\* told to stop, for any set of optional collections and any interleaving of
\* the pollers, the promotion's collect_once and set_leader(False).
THEOREM FollowersAreEmpty == Spec => []FollowerHasNoSeries
  <1>1. FollowerInv /\ [Next]_vars => FollowerInv'
    <2>. SUFFICES ASSUME FollowerInv, [Next]_vars
                  PROVE  FollowerInv'
      OBVIOUS
    <2>1. CASE \E t \in Pollers : Poll(t)
      BY <2>1, PollKeeps
    <2>2. CASE Leadership
      BY <2>2, LeadershipKeeps
    <2>3. CASE Release \/ Shutdown
      BY <2>3, ShutdownKeeps
    <2>4. CASE UNCHANGED vars
      BY <2>4 DEF vars, FollowerInv, StopAnnounced, EventFollowsLeadership,
                  FollowerHasNoSeries, Nothing
    <2>. QED
      BY <2>1, <2>2, <2>3, <2>4 DEF Next
  <1>2. FollowerInv => FollowerHasNoSeries
    BY DEF FollowerInv
  <1>. QED
    BY FollowerInit, <1>1, <1>2, PTL DEF Spec

----------------------------------------------------------------------------
(* Standby.                                                                *)

\* A poller that has already decided to collect has used nothing of the one
\* collection a demotion leaves it, and only a leader lets it decide so.
StrayInv ==
    /\ pc \in [Pollers -> PollerPhases]
    /\ strays \in [Pollers -> Nat]
    /\ mpc = "serving" =>
          /\ event => held
          /\ \A t \in Pollers :
                /\ held => strays[t] = 0
                /\ strays[t] <= IF pc[t] = "begin" THEN 0 ELSE 1

LEMMA StrayInit == Init => StrayInv
  BY DEF Init, StrayInv, PollerPhases

LEMMA StrayPoll ==
    ASSUME NEW t \in Pollers, StrayInv, Poll(t)
    PROVE  StrayInv'
  <1>1. CASE CollectStep(t)
    BY <1>1 DEF CollectStep, EventsUnchanged, LedgerUnchanged, StrayInv
  <1>2. CASE Begin(t)
    <2>1. /\ pc[t] = "begin" /\ pc' = [pc EXCEPT ![t] = "collect"]
          /\ UNCHANGED <<event, mpc, held>>
      BY <1>2 DEF Begin, PGo, PLocal
    <2>2. /\ strays' \in [Pollers -> Nat]
          /\ \A u \in Pollers \ {t} : strays'[u] = strays[u]
          /\ strays'[t] \in {strays[t], strays[t] + 1}
          /\ held => strays'[t] = strays[t]
      BY <1>2 DEF Begin, StrayInv
    <2>3. pc' \in [Pollers -> PollerPhases]
      BY <2>1 DEF StrayInv, PollerPhases
    <2> QED
      BY <2>1, <2>2, <2>3 DEF StrayInv
  <1>3. CASE CheckLeader(t)
    <2>1. /\ pc' = [pc EXCEPT ![t] = IF event THEN "begin" ELSE "standby"]
          /\ UNCHANGED <<event, mpc, held, strays>>
      BY <1>3 DEF CheckLeader, PGo, PLocal
    <2>2. pc' \in [Pollers -> PollerPhases]
      BY <2>1 DEF StrayInv, PollerPhases
    <2> QED
      BY <2>1, <2>2 DEF StrayInv
  <1>4. CASE Top(t) \/ Standby(t) \/ CollectEnds(t) \/ Wait(t) \/ IntervalElapses(t)
    <2>1. /\ \E to \in {"ended", "check", "top", "wait", "sleep"} : pc' = [pc EXCEPT ![t] = to]
          /\ pc[t] # "begin"
          /\ UNCHANGED <<event, mpc, held, strays>>
      BY <1>4 DEF Top, Standby, CollectEnds, Wait, IntervalElapses, PGo, PLocal
    <2>2. pc' \in [Pollers -> PollerPhases]
      BY <2>1 DEF StrayInv, PollerPhases
    <2> QED
      BY <2>1, <2>2 DEF StrayInv
  <1>. QED
    BY <1>1, <1>2, <1>3, <1>4 DEF Poll

LEMMA StrayWake ==
    ASSUME StrayInv, SetWake, UNCHANGED <<event, held, strays>>, mpc' = "serving" => mpc = "serving"
    PROVE  StrayInv'
  <1>1. \A t \in Pollers : pc'[t] = pc[t] \/ (pc[t] = "sleep" /\ pc'[t] = "top")
    BY DEF SetWake
  <1>2. pc' \in [Pollers -> PollerPhases]
    BY DEF SetWake, StrayInv, PollerPhases
  <1>. QED
    BY <1>1, <1>2 DEF StrayInv

LEMMA StrayOthers ==
    ASSUME StrayInv, Leadership \/ Release \/ Shutdown
    PROVE  StrayInv'
  <1>1. CASE WakePollers \/ StopWakes
    BY <1>1, StrayWake DEF WakePollers, StopWakes, MGo
  <1>2. CASE Elect
    BY <1>2 DEF Elect, ELocal, StrayInv
  <1>3. CASE Demote
    BY <1>3 DEF Demote, ELocal, StrayInv
  <1>4. CASE Promoted \/ ClearGauges \/ CollectStep(Election)
    BY <1>4 DEF Promoted, ClearGauges, CollectStep, ELocal, EventsUnchanged,
                LedgerUnchanged, StrayInv
  <1>5. CASE Release \/ SetStop \/ SetEvent
    BY <1>5 DEF Release, SetStop, SetEvent, MGo, LedgerUnchanged, StrayInv
  <1>. QED
    BY <1>1, <1>2, <1>3, <1>4, <1>5 DEF Leadership, Promotion, Shutdown

\* After a demotion each poller begins at most the one collection it had already
\* decided on, whatever is configured and however often leadership changes.
THEOREM StandbyIsQuiet == Spec => []StandbySkipsCollection
  <1>1. StrayInv /\ [Next]_vars => StrayInv'
    <2>. SUFFICES ASSUME StrayInv, [Next]_vars
                  PROVE  StrayInv'
      OBVIOUS
    <2>1. CASE UNCHANGED vars
      BY <2>1 DEF vars, StrayInv
    <2>. QED
      BY <2>1, StrayPoll, StrayOthers DEF Next
  <1>2. StrayInv => StandbySkipsCollection
    BY DEF StrayInv, StandbySkipsCollection
  <1>. QED
    BY StrayInit, <1>1, <1>2, PTL DEF Spec

----------------------------------------------------------------------------
(* Types: whatever returns early, a thread is left with the end of a round.  *)

LEMMA SuffixesClosed ==
  ASSUME NEW S, NEW s \in Seq(S)
  PROVE  /\ s \in Suffixes(s) /\ Idle \in Suffixes(s)
         /\ \A x \in Suffixes(s) : x # Idle => Tail(x) \in Suffixes(s)
         /\ \A x \in Suffixes(s), k \in Nat : SubSeq(x, k + 1, Len(x)) \in Suffixes(s)
<1> DEFINE L == Len(s)
           From(n) == SubSeq(s, n, L)
<1>1. L \in Nat /\ \A i \in 1 .. L : s[i] \in S
  OBVIOUS
<1>2. \A n \in 1 .. L + 1 : From(n) \in Seq(S) /\ Len(From(n)) = L + 1 - n
  <2> SUFFICES ASSUME NEW n \in 1 .. L + 1
               PROVE  From(n) \in Seq(S) /\ Len(From(n)) = L + 1 - n
    OBVIOUS
  <2>1. \A i \in n .. L : s[i] \in S
    BY <1>1
  <2> QED
    BY <1>1, <2>1, SubSeqProperties
<1>3. From(L + 1) = Idle
  BY <1>1, SubSeqEmpty DEF Idle
<1>4. \A n \in 1 .. L + 1 : From(n) \in Suffixes(s)
  BY DEF Suffixes
<1>5. s \in Suffixes(s)
  <2>1. From(1) = s /\ 1 \in 1 .. L + 1
    BY <1>1, SubSeqFull
  <2>2. From(1) \in Suffixes(s)
    BY <1>4, <2>1
  <2> HIDE DEF From
  <2> QED
    BY <2>1, <2>2
<1>6. ASSUME NEW x \in Suffixes(s)
      PROVE  /\ x # Idle => Tail(x) \in Suffixes(s)
             /\ \A k \in Nat : SubSeq(x, k + 1, Len(x)) \in Suffixes(s)
  <2>1. PICK n \in 1 .. L + 1 : x = From(n)
    BY <1>6 DEF Suffixes
  <2>2. ASSUME x # Idle PROVE Tail(x) \in Suffixes(s)
    <3>1. n \in 1 .. L /\ n + 1 \in 1 .. L + 1
      BY <1>1, <1>3, <2>1, <2>2
    <3>2. Tail(x) = From(n + 1)
      BY <1>1, <2>1, <3>1, HeadTailOfSubSeq
    <3> QED
      BY <1>4, <3>1, <3>2
  <2>3. ASSUME NEW k \in Nat PROVE SubSeq(x, k + 1, Len(x)) \in Suffixes(s)
    <3>1. Len(x) = L + 1 - n
      BY <1>2, <2>1
    <3>2. CASE k < Len(x)
      <4>1. /\ n \in 1 .. L /\ L \in 1 .. L
            /\ k + 1 \in 1 .. L - n + 1 /\ Len(x) \in 1 .. L - n + 1
            /\ n + k \in 1 .. L + 1 /\ n + (k + 1) - 1 = n + k /\ n + Len(x) - 1 = L
        BY <1>1, <3>1, <3>2
      <4>2. SubSeq(x, k + 1, Len(x)) = SubSeq(s, n + (k + 1) - 1, n + Len(x) - 1)
        BY <2>1, <4>1, SubSeqOfSubSeq
      <4> QED
        BY <1>4, <4>1, <4>2
    <3>3. CASE ~(k < Len(x))
      <4>1. Len(x) \in Int /\ k + 1 \in Int /\ Len(x) < k + 1
        BY <1>1, <3>1, <3>3
      <4>2. SubSeq(x, k + 1, Len(x)) = Idle
        BY <4>1, SubSeqEmpty DEF Idle
      <4>3. From(L + 1) \in Suffixes(s)
        BY <1>1, <1>4
      <4> HIDE DEF From
      <4> QED
        BY <1>3, <4>2, <4>3
    <3> QED
      BY <3>2, <3>3
  <2> QED
    BY <2>2, <2>3
<1> QED
  BY <1>1, <1>3, <1>4, <1>5, <1>6

LEMMA RoundIsSeq ==
  \A t \in Threads : Round(t) \in Seq({"call", "update", "summary"} \X {"vmss", "lustre", "vm"})
<1> DEFINE Ops == {"call", "update", "summary"} \X {"vmss", "lustre", "vm"}
<1>1. \A r \in {"vmss", "lustre", "vm"} :
         /\ << <<"call", r>>, <<"update", r>>, <<"summary", r>> >> \in Seq(Ops)
         /\ << <<"call", r>>, <<"update", r>> >> \in Seq(Ops)
         /\ << <<"summary", r>> >> \in Seq(Ops)
  OBVIOUS
<1>2. << >> \in Seq(Ops)
  OBVIOUS
<1>3. \A u, v \in Seq(Ops) : u \o v \in Seq(Ops)
  OBVIOUS
<1> HIDE DEF Ops
<1>4. \A r \in {"vmss", "lustre", "vm"} : Collect(r) \in Seq(Ops)
  BY <1>1, <1>2 DEF Collect, Idle
<1>5. \A t \in Threads : t \in {"vmss", "lustre", "election"}
  BY PollingAssumption DEF Threads, Pollers, Resources, Election
<1>6. Round("vmss") \in Seq(Ops)
  BY <1>3, <1>4 DEF Round, Election
<1>7. Round("lustre") \in Seq(Ops)
  BY <1>4 DEF Round, Election
<1>8. Round("election") \in Seq(Ops)
  BY <1>1, <1>3, <1>4 DEF Round, Election
<1> QED
  BY <1>5, <1>6, <1>7, <1>8 DEF Ops

LEMMA RoundEnds ==
  ASSUME NEW t \in Threads
  PROVE  /\ Round(t) \in Suffixes(Round(t)) /\ Idle \in Suffixes(Round(t))
         /\ \A x \in Suffixes(Round(t)) : x # Idle => Tail(x) \in Suffixes(Round(t))
         /\ \A x \in Suffixes(Round(t)), k \in Nat :
               SubSeq(x, k + 1, Len(x)) \in Suffixes(Round(t))
  BY RoundIsSeq, SuffixesClosed

LEMMA TypeInit == Init => TypeOK
<1>1. \A t \in Threads : Idle \in Suffixes(Round(t))
  BY RoundEnds
<1> SUFFICES ASSUME Init
             PROVE  TypeOK
  OBVIOUS
<1>2. stopEvent \in BOOLEAN /\ event \in BOOLEAN /\ wake \in BOOLEAN /\ held \in BOOLEAN
  BY PollingAssumption DEF Init
<1>3. pc \in [Pollers -> PollerPhases] /\ epc \in ElectionPhases /\ mpc \in MainPhases
  BY DEF Init, PollerPhases, ElectionPhases, MainPhases
<1>4. DOMAIN todo = Threads /\ \A t \in Threads : todo[t] \in Suffixes(Round(t))
  BY <1>1 DEF Init
<1>5. strays \in [Pollers -> 0 .. MaxStrays] /\ owed \subseteq Pollers
  BY PollingAssumption DEF Init
<1>6. series \in [Resources -> BOOLEAN] /\ summary \in [Resources -> BOOLEAN]
  BY DEF Init, Nothing
<1> QED
  BY <1>2, <1>3, <1>4, <1>5, <1>6 DEF TypeOK

LEMMA CollectTypes ==
  ASSUME TypeOK, NEW t \in Threads, CollectStep(t)
  PROVE  TypeOK'
<1> USE DEF TypeOK
<1>1. PICK r \in Resources :
        CallReturns(t, r) \/ CallFails(t, r) \/ Update(t, r) \/ Summarize(t, r)
  BY DEF CollectStep
<1>2. series' \in [Resources -> BOOLEAN] /\ summary' \in [Resources -> BOOLEAN]
  BY <1>1 DEF CallReturns, CallFails, Update, Summarize, GaugesUnchanged
<1>3. \E x \in Suffixes(Round(t)) : todo' = [todo EXCEPT ![t] = x]
  <2>1. todo[t] # Idle
    BY <1>1 DEF CallReturns, CallFails, Update, Summarize, Head2
  <2>2. Tail(todo[t]) \in Suffixes(Round(t))
    BY <2>1, RoundEnds
  <2>3. \A n \in Nat : Rest(t, r, n) \in Suffixes(Round(t))
    BY RoundEnds DEF Rest
  <2>4. \/ Advance(t) \/ Skip(t, r, 3) \/ Skip(t, r, 2)
    BY <1>1 DEF CallReturns, CallFails, Update, Summarize
  <2> QED
    BY <2>2, <2>3, <2>4 DEF Advance, Skip
<1>4. DOMAIN todo' = Threads /\ \A u \in Threads : todo'[u] \in Suffixes(Round(u))
  BY <1>3
<1> QED
  BY <1>2, <1>4 DEF CollectStep, EventsUnchanged, LedgerUnchanged

LEMMA PollTypes ==
  ASSUME TypeOK, NEW t \in Pollers, Poll(t)
  PROVE  TypeOK'
<1> USE DEF TypeOK
<1>1. CASE CollectStep(t)
  BY <1>1, CollectTypes DEF Threads
<1>2. CASE Begin(t)
  <2>1. /\ UNCHANGED <<stopEvent, event, epc, mpc, held, owed, series, summary>>
        /\ wake' = FALSE /\ pc' = [pc EXCEPT ![t] = "collect"]
        /\ todo' = [todo EXCEPT ![t] = Round(t)]
    BY <1>2 DEF Begin, PGo, PLocal, GaugesUnchanged
  <2>2. strays' \in [Pollers -> 0 .. MaxStrays]
    BY <1>2, PollingAssumption DEF Begin
  <2>3. DOMAIN todo' = Threads /\ \A u \in Threads : todo'[u] \in Suffixes(Round(u))
    BY <2>1, RoundEnds DEF Threads
  <2>4. pc' \in [Pollers -> PollerPhases]
    BY <2>1 DEF PollerPhases
  <2> QED
    BY <2>1, <2>2, <2>3, <2>4
<1>3. CASE Top(t) \/ CheckLeader(t) \/ Standby(t) \/ CollectEnds(t) \/ Wait(t) \/ IntervalElapses(t)
  <2>1. /\ UNCHANGED <<stopEvent, event, epc, mpc, held, series, summary, wake, todo, strays>>
        /\ owed' \subseteq owed
        /\ \E to \in PollerPhases : pc' = [pc EXCEPT ![t] = to]
    BY <1>3 DEF Top, CheckLeader, Standby, CollectEnds, Wait, IntervalElapses, PGo, PLocal,
                GaugesUnchanged, PollerPhases
  <2>2. pc' \in [Pollers -> PollerPhases]
    BY <2>1
  <2> QED
    BY <2>1, <2>2
<1> QED
  BY <1>1, <1>2, <1>3 DEF Poll

LEMMA WakeTypes ==
  ASSUME TypeOK, SetWake
  PROVE  wake' \in BOOLEAN /\ pc' \in [Pollers -> PollerPhases] /\ owed' \subseteq Pollers
  BY DEF TypeOK, SetWake, PollerPhases

LEMMA OthersTypes ==
  ASSUME TypeOK, Leadership \/ Release \/ Shutdown
  PROVE  TypeOK'
<1> USE DEF TypeOK, ElectionPhases, MainPhases, GaugesUnchanged
<1>1. CASE WakePollers
  <2>1. /\ DOMAIN todo' = Threads /\ \A u \in Threads : todo'[u] \in Suffixes(Round(u))
    BY <1>1, RoundEnds DEF WakePollers, Threads
  <2>2. /\ UNCHANGED <<stopEvent, event, mpc, held, strays, series, summary>>
        /\ epc' = "collect" /\ SetWake
    BY <1>1 DEF WakePollers, EGo
  <2> QED
    BY <2>1, <2>2, WakeTypes
<1>2. CASE CollectStep(Election)
  BY <1>2, CollectTypes DEF Threads
<1>3. CASE Elect
  BY <1>3, PollingAssumption DEF Elect, EGo, ELocal
<1>4. CASE Promoted \/ Demote
  BY <1>4 DEF Promoted, Demote, EGo, ELocal, LedgerUnchanged
<1>5. CASE ClearGauges
  BY <1>5 DEF ClearGauges, EGo, EventsUnchanged, LedgerUnchanged, Nothing
<1>6. CASE Release
  BY <1>6, PollingAssumption DEF Release, MGo, MLocal, EventsUnchanged
<1>7. CASE SetStop \/ SetEvent
  BY <1>7 DEF SetStop, SetEvent, MGo, MLocal, LedgerUnchanged
<1>8. CASE StopWakes
  BY <1>8, WakeTypes DEF StopWakes, MGo, MLocal
<1> QED
  BY <1>1, <1>2, <1>3, <1>4, <1>5, <1>6, <1>7, <1>8 DEF Leadership, Promotion, Shutdown

\* Types are kept, and a thread whose collection returns early or raises is left
\* with the end of its round: no step is run twice, none before its turn.
THEOREM TypeCorrect == Spec => []TypeOK
<1>1. TypeOK /\ [Next]_vars => TypeOK'
  <2> SUFFICES ASSUME TypeOK, [Next]_vars
               PROVE  TypeOK'
    OBVIOUS
  <2>1. CASE UNCHANGED vars
    BY <2>1 DEF vars, TypeOK
  <2> QED
    BY <2>1, PollTypes, OthersTypes DEF Next
<1> QED
  BY TypeInit, <1>1, PTL DEF Spec
=============================================================================
