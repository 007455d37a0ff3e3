------------------------ MODULE ParakeetDaemonProofs ------------------------
(* Proofs about ParakeetDaemon, for every number of ids, slots, phrases,     *)
(* processes, sessions and faults.                                           *)
EXTENDS ParakeetDaemon, FiniteSetTheorems, TLAPS

\* Only the present process may be alive, and it has its reader and its socket;
\* of later generations nothing exists.
ProcInv ==
  /\ held => gen \in Gen
  /\ \A g \in Gen :
       /\ proc[g] = "alive" =>
            held /\ g = gen /\ reader[g] \in {"reading", "leaving"} /\ g \notin shut
       /\ g > gen => proc[g] = "none" /\ reader[g] = "none" /\ g \notin shut

\* A request in a slot is unanswered, and its reader still reads unless it gave up on
\* the living process.
SlotInv ==
  \A i \in Id : inflight[i] # 0 =>
    results[i] = "none" /\ reader[inflight[i]] \in {"reading", "leaving", "left"}

\* The places of a session before and after the finalizer's end.
Ended == {"idle", "publish", "release", "wait", "reset"}

\* The finalizer has ended when the transcript is published, and before that only
\* at the sentinel, which is the last item of the queue, or after the abort.
SessionInv ==
  /\ abort => spc \in {"abort", "publish", "release", "wait", "reset"}
  /\ spc \in Ended => fpc = "off"
  /\ fpc = "off" => spc \notin {"record", "drain"}
  /\ \A n \in 1 .. Len(finals) :
       finals[n] = End => n = Len(finals) /\ spc \notin {"record", "drain"}
  /\ spc = "join" /\ fpc = "off" => finals = <<>>
  /\ fpc = "wait" => req \in Id
  /\ fpc \in {"submit", "wait", "type"} => item \in Phrase
  /\ spc = "record" => starts > 0
  /\ active => phrase > 0

\* A phrase that was spoken to its end is transcribed, with the finalizer, or in
\* its queue, or the session has recorded an error.
Pending == {finals[n] : n \in 1 .. Len(finals)}
InHand == IF fpc \in {"submit", "wait", "type"} THEN {item} ELSE {}
PhraseInv ==
  /\ ~errors => offered \subseteq heard \cup InHand \cup Pending
  /\ spc = "publish" /\ ~errors => offered \subseteq heard
  /\ claimed => spc \in {"release", "wait", "reset"} /\ offered \subseteq heard

\* An on-demand service has given its process up when a session ends.
ReleaseInv ==
  ~warm /\ spc \in {"wait", "reset", "idle"} => \A g \in Gen : proc[g] # "alive"

IInv ==
  TypeOK /\ IsFiniteSet(InFlight) /\ ProcInv /\ SlotInv /\ SessionInv /\ PhraseInv /\ ReleaseInv

-----------------------------------------------------------------------------
(* What a step does to the process, and to the slots.                        *)

\* _stop, or a deadline: the present process is told to exit.
Killed == Kill(gen) /\ UNCHANGED <<gen, held, reader, shut, mail>>

\* Every step that touches the process or the slots is one of a few kinds.
LEMMA ProcessEffect ==
  ASSUME [Next]_vars, PhraseType, SessionInv
  PROVE  \/ \E g \in Gen : ProcessStep(g)
         \/ Cardinality(InFlight) < Limit /\ \E i \in Fresh : Sent(i)
         \/ Raised
         \/ /\ Killed \/ UNCHANGED process
            /\ \/ UNCHANGED slots
               \/ \E i \in Id : Pop(i) /\ UNCHANGED discarded
               \/ \E i \in Id : GiveUp(i)
<1>1. CASE FSubmit \/ Interim
  BY <1>1 DEF FSubmit, Interim, Sent
<1>2. CASE FNoSlot \/ FResult \/ FGiveUp
  BY <1>2 DEF FNoSlot, FResult, FGiveUp, SessionInv, Killed, process, slots, Kill, Pop, GiveUp
<1>3. CASE Poll \/ ClosePhrase \/ CaptureStops
  <2>1. UNCHANGED process
    BY <1>3 DEF Poll, ClosePhrase, CaptureStops
  <2>2. CASE interim = None
    BY <1>3, <2>1, <2>2 DEF Poll, ClosePhrase, CaptureStops, Cancel
  <2>3. CASE interim \in Id
    BY <1>3, <2>1, <2>3 DEF Poll, ClosePhrase, CaptureStops, Cancel, Pop, GiveUp, slots
  <2> QED
    BY <2>2, <2>3 DEF PhraseType
<1>4. CASE Release \/ UnloadBegins
  BY <1>4 DEF Release, UnloadBegins, StopWorker, Killed, slots, SessionUnchanged
<1>5. CASE FGet \/ FType \/ Onset \/ CaptureFails
  BY <1>5 DEF FGet, FType, Onset, CaptureFails
<1>6. CASE Sentinel \/ Joined \/ JoinTimeout \/ AbortJoined \/ Publish \/ Released
  BY <1>6 DEF Sentinel, Joined, JoinTimeout, AbortJoined, Publish, Released, SessionUnchanged, slots
<1>7. CASE Reset \/ Start \/ Toggle \/ StopCommand \/ UnloadEnds \/ ServiceStep
  BY <1>7 DEF Reset, Start, Toggle, StopCommand, UnloadEnds, ServiceStep, SelfStopCheck, SelfStop
<1>8. CASE UNCHANGED vars
  BY <1>8 DEF vars
<1> QED
  BY <1>1, <1>2, <1>3, <1>4, <1>5, <1>6, <1>7, <1>8
  DEF Next, FinalizerStep, CaptureStep, SessionStep, CommandStep, Rest

-----------------------------------------------------------------------------
(* Types.                                                                    *)

LEMMA HeadAndTail ==
  ASSUME NEW S, NEW s \in Seq(S), s # <<>>
  PROVE  Head(s) \in S /\ Tail(s) \in Seq(S)
OBVIOUS

LEMMA ProcessTypeStep ==
  ASSUME [Next]_vars, PhraseType, SessionInv, ProcessType, ProcInv
  PROVE  ProcessType'
<1> USE SizeAssumption DEF ProcessType, Gen
<1>1. ASSUME NEW g \in Gen, ProcessStep(g) PROVE ProcessType'
  <2>1. UNCHANGED <<gen, shut>> /\ held' \in BOOLEAN
    BY <1>1 DEF ProcessStep, Answer, Collapse, Exit, Read, Lose, EndOfStream, Leave,
      KillLeft, Reap
  <2>2. proc' \in [Gen -> {"none", "alive", "closing", "dead"}]
    BY <1>1 DEF ProcessStep, Answer, Collapse, Exit, Read, Lose, EndOfStream, Leave,
      KillLeft, Reap
  <2>3. reader' \in [Gen -> {"none", "reading", "reaping", "leaving", "gone", "left"}]
    BY <1>1 DEF ProcessStep, Answer, Collapse, Exit, Read, Lose, EndOfStream, Leave,
      KillLeft, Reap
  <2> QED
    BY <2>1, <2>2, <2>3
<1>2. ASSUME NEW i \in Fresh, Sent(i) PROVE ProcessType'
  <2>1. CASE UNCHANGED <<gen, held, proc, reader, shut>>
    BY <2>1
  <2>2. CASE /\ gen < MaxGen /\ gen' = gen + 1 /\ held' = TRUE
             /\ proc' = [proc EXCEPT ![gen'] = "alive"]
             /\ reader' = [reader EXCEPT ![gen'] = "reading"]
             /\ shut' = IF held THEN shut \cup {gen} ELSE shut
    BY <2>2 DEF ProcInv
  <2> QED
    BY <1>2, <2>1, <2>2 DEF Sent
<1>3. CASE Raised
  <2>1. held' = FALSE /\ UNCHANGED <<gen, proc, reader>> /\ shut' \subseteq Gen
    BY <1>3 DEF Raised, Drop, ProcInv
  <2> QED
    BY <2>1
<1>4. CASE Killed \/ UNCHANGED process
  BY <1>4 DEF Killed, Kill, process
<1> QED
  BY <1>1, <1>2, <1>3, <1>4, ProcessEffect

LEMMA MailTypeStep ==
  ASSUME [Next]_vars, PhraseType, SessionInv, MailType
  PROVE  MailType'
<1> DEFINE Answers == Seq([id : Id, result : {"ok", "bad"}])
<1>0. <<>> \in Seq(Id) /\ <<>> \in Answers
  OBVIOUS
<1>1. ASSUME NEW g \in Gen, ProcessStep(g) PROVE MailType'
  <2>1. CASE Answer(g)
    <3>1. PICK r \in {"ok", "bad"} :
            \/ mail' = [mail EXCEPT ![g] = Append(@, [id |-> Head(box[g]), result |-> r])]
            \/ mail' = mail
      BY <2>1 DEF Answer
    <3>2. box[g] \in Seq(Id) /\ box[g] # <<>> /\ box' = [box EXCEPT ![g] = Tail(@)]
      BY <2>1 DEF Answer, MailType
    <3>3. Head(box[g]) \in Id /\ Tail(box[g]) \in Seq(Id)
      BY <3>2
    <3>4. mail[g] \in Answers
      BY DEF MailType
    <3>5. Append(mail[g], [id |-> Head(box[g]), result |-> r]) \in Answers
      BY <3>3, <3>4
    <3>6. mail' \in [Gen -> Answers]
      BY <3>1, <3>5 DEF MailType
    <3> QED
      BY <3>2, <3>3, <3>6 DEF MailType
  <2>2. CASE Read(g) \/ Lose(g)
    <3>1. mail[g] \in Answers /\ mail[g] # <<>>
      BY <2>2 DEF MailType, Read, Lose
    <3>2. Tail(mail[g]) \in Answers
      BY <3>1
    <3> QED
      BY <2>2, <3>2 DEF MailType, Read, Lose
  <2>3. CASE EndOfStream(g) \/ Leave(g)
    BY <1>0, <2>3 DEF MailType, EndOfStream, Leave
  <2>4. CASE Collapse(g) \/ KillLeft(g)
    BY <1>0, <2>4 DEF MailType, Collapse, KillLeft
  <2>5. CASE Exit(g) \/ Reap(g)
    BY <2>5 DEF MailType, Exit, Reap
  <2> QED
    BY <1>1, <2>1, <2>2, <2>3, <2>4, <2>5 DEF ProcessStep
<1>2. ASSUME NEW i \in Fresh, Sent(i) PROVE MailType'
  <2>1. box' = [box EXCEPT ![gen'] = Append(@, i)] /\ mail' = mail /\ i \in Id
    BY <1>2 DEF Sent, Fresh
  <2>2. \A g \in Gen : Append(box[g], i) \in Seq(Id)
    BY <2>1 DEF MailType
  <2> QED
    BY <2>1, <2>2 DEF MailType
<1>3. CASE Raised
  BY <1>3 DEF Raised, MailType
<1>4. CASE Killed \/ UNCHANGED process
  BY <1>0, <1>4 DEF Killed, Kill, process, MailType
<1> QED
  BY <1>1, <1>2, <1>3, <1>4, ProcessEffect

LEMMA SlotTypeStep ==
  ASSUME [Next]_vars, PhraseType, SessionInv, ProcessType, MailType, SlotType
  PROVE  SlotType'
<1> USE DEF SlotType
<1>1. ASSUME NEW g \in Gen, ProcessStep(g) PROVE SlotType'
  <2>1. CASE Read(g)
    <3>1. mail[g] \in Seq([id : Id, result : {"ok", "bad"}]) /\ mail[g] # <<>>
      BY <2>1 DEF Read, MailType
    <3>2. Head(mail[g]) \in [id : Id, result : {"ok", "bad"}]
      BY <3>1, HeadAndTail
    <3>3. Head(mail[g]).id \in Id /\ Head(mail[g]).result \in {"ok", "bad"}
      BY <3>2
    <3> QED
      BY <2>1, <3>3, SizeAssumption DEF Read
  <2>2. CASE EndOfStream(g) \/ Leave(g)
    BY <2>2, SizeAssumption DEF EndOfStream, Leave, FailGeneration
  <2>3. CASE UNCHANGED slots
    BY <2>3 DEF slots
  <2> QED
    BY <1>1, <2>1, <2>2, <2>3 DEF ProcessStep, Answer, Collapse, Exit, Lose, KillLeft, Reap
<1>2. ASSUME NEW i \in Fresh, Sent(i) PROVE SlotType'
  <2>1. gen' \in 0 .. MaxGen
    BY <1>2, SizeAssumption DEF Sent, ProcessType
  <2> QED
    BY <1>2, <2>1 DEF Sent, Fresh
<1>3. CASE Raised \/ UNCHANGED slots
  BY <1>3 DEF Raised, slots
<1>4. ASSUME NEW i \in Id, GiveUp(i) \/ (Pop(i) /\ UNCHANGED discarded) PROVE SlotType'
  BY <1>4, SizeAssumption DEF GiveUp, Pop
<1> QED
  BY <1>1, <1>2, <1>3, <1>4, ProcessEffect

\* At most one slot is taken by a step, and only where one is free.
LEMMA SlotLimitStep ==
  ASSUME [Next]_vars, PhraseType, SessionInv, MailType, SlotType,
         IsFiniteSet(InFlight), SlotsAreLimited
  PROVE  IsFiniteSet(InFlight') /\ SlotsAreLimited'
<1> USE DEF SlotType, InFlight
<1>1. SlotsAreLimited <=> Cardinality(InFlight) <= Limit
  BY DEF SlotsAreLimited
<1>2. SlotsAreLimited' <=> Cardinality(InFlight') <= Limit
  BY DEF SlotsAreLimited
<1>3. ASSUME InFlight' \subseteq InFlight PROVE IsFiniteSet(InFlight') /\ SlotsAreLimited'
  <2>1. /\ IsFiniteSet(InFlight') /\ Cardinality(InFlight') <= Cardinality(InFlight)
        /\ Cardinality(InFlight) \in Nat /\ Cardinality(InFlight') \in Nat
    BY <1>3, FS_Subset, FS_CardinalityType
  <2> QED
    BY <2>1, <1>1, <1>2, SizeAssumption
<1>4. ASSUME NEW g \in Gen, ProcessStep(g) PROVE InFlight' \subseteq InFlight
  BY <1>4 DEF ProcessStep, Answer, Collapse, Exit, Read, Lose, EndOfStream, Leave,
      KillLeft, Reap, FailGeneration, slots
<1>5. CASE Cardinality(InFlight) < Limit /\ \E i \in Fresh : Sent(i)
  <2>1. PICK i \in Fresh : InFlight' \subseteq InFlight \cup {i}
    BY <1>5 DEF Sent
  <2>2. /\ IsFiniteSet(InFlight \cup {i}) /\ Cardinality(InFlight \cup {i}) \in Nat
        /\ Cardinality(InFlight \cup {i}) <= Cardinality(InFlight) + 1
        /\ Cardinality(InFlight) \in Nat
    <3> HIDE DEF InFlight
    <3>1. Cardinality(InFlight) \in Nat
      BY FS_CardinalityType
    <3>2. /\ IsFiniteSet(InFlight \cup {i})
          /\ Cardinality(InFlight \cup {i}) \in {Cardinality(InFlight), Cardinality(InFlight) + 1}
      BY FS_AddElement
    <3> QED
      BY <3>1, <3>2
  <2>3. /\ IsFiniteSet(InFlight') /\ Cardinality(InFlight') \in Nat
        /\ Cardinality(InFlight') <= Cardinality(InFlight \cup {i})
    BY <2>1, <2>2, FS_Subset, FS_CardinalityType
  <2> QED
    BY <1>2, <1>5, <2>2, <2>3, SizeAssumption
<1>6. CASE Raised \/ UNCHANGED slots \/ (\E i \in Id : GiveUp(i) \/ Pop(i))
  BY <1>6, <1>3 DEF Raised, slots, GiveUp, Pop
<1> QED
  BY <1>3, <1>4, <1>5, <1>6, ProcessEffect

-----------------------------------------------------------------------------
(* The process, its reader, and the slots.                                   *)

LEMMA ProcInvStep ==
  ASSUME [Next]_vars, PhraseType, SessionInv, ProcessType, ProcInv
  PROVE  ProcInv'
<1> USE SizeAssumption DEF ProcessType, Gen, ProcInv
<1>1. ASSUME NEW g \in Gen, ProcessStep(g) PROVE ProcInv'
  <2>1. CASE Answer(g) \/ Read(g) \/ Lose(g)
    BY <2>1 DEF Answer, Read, Lose
  <2>2. CASE Collapse(g) \/ Exit(g) \/ KillLeft(g)
    BY <2>2 DEF Collapse, Exit, KillLeft
  <2>3. CASE EndOfStream(g) \/ Leave(g)
    BY <2>3 DEF EndOfStream, Leave
  <2>4. CASE Reap(g)
    BY <2>4 DEF Reap
  <2> QED
    BY <1>1, <2>1, <2>2, <2>3, <2>4 DEF ProcessStep
<1>2. ASSUME NEW i \in Fresh, Sent(i) PROVE ProcInv'
  <2>1. CASE UNCHANGED <<gen, held, proc, reader, shut>>
    BY <2>1
  <2>2. CASE /\ ~Usable /\ gen < MaxGen /\ gen' = gen + 1 /\ held' = TRUE
             /\ proc' = [proc EXCEPT ![gen'] = "alive"]
             /\ reader' = [reader EXCEPT ![gen'] = "reading"]
             /\ shut' = IF held THEN shut \cup {gen} ELSE shut
    BY <2>2 DEF Usable
  <2> QED
    BY <1>2, <2>1, <2>2 DEF Sent
<1>3. CASE Raised
  BY <1>3 DEF Raised, Drop, Usable
<1>4. CASE Killed \/ UNCHANGED process
  BY <1>4 DEF Killed, Kill, process
<1> QED
  BY <1>1, <1>2, <1>3, <1>4, ProcessEffect

LEMMA SlotInvStep ==
  ASSUME [Next]_vars, PhraseType, SessionInv, ProcessType, MailType, SlotType, ProcInv, SlotInv
  PROVE  SlotInv'
<1> USE DEF ProcessType, SlotType, SlotInv
<1>1. ASSUME NEW g \in Gen, ProcessStep(g) PROVE SlotInv'
  <2>1. CASE Read(g)
    BY <2>1 DEF Read
  <2>2. CASE EndOfStream(g) \/ Leave(g)
    <3>1. FailGeneration(g) /\ \A h \in Gen : h # g => reader'[h] = reader[h]
      BY <2>2 DEF EndOfStream, Leave
    <3>2. SUFFICES ASSUME NEW i \in Id, inflight'[i] # 0
                   PROVE  results'[i] = "none" /\ reader'[inflight'[i]] \in {"reading", "leaving", "left"}
      BY DEF SlotInv
    <3>3. inflight[i] # 0 /\ inflight[i] # g /\ inflight'[i] = inflight[i] /\ results'[i] = results[i]
      BY <3>1, <3>2 DEF FailGeneration
    <3>4. inflight[i] \in Gen
      BY <3>3, SizeAssumption DEF Gen
    <3> QED
      BY <3>1, <3>3, <3>4
  <2>3. CASE Reap(g)
    BY <2>3 DEF Reap, slots
  <2>4. CASE UNCHANGED <<slots, reader>>
    BY <2>4 DEF slots
  <2> QED
    BY <1>1, <2>1, <2>2, <2>3, <2>4 DEF ProcessStep, Answer, Collapse, Exit, Lose, KillLeft
<1>2. ASSUME NEW i \in Fresh, Sent(i) PROVE SlotInv'
  <2>1. results[i] = "none" /\ i \in Id
    BY DEF Fresh, Remembered
  <2>2. /\ reader'[gen'] \in {"reading", "leaving"}
        /\ \A g \in Gen : reader'[g] \in {reader[g], "reading"}
    BY <1>2, SizeAssumption DEF Sent, Usable, ProcInv, Gen
  <2>3. UNCHANGED results /\ inflight' = [inflight EXCEPT ![i] = gen']
    BY <1>2 DEF Sent
  <2>4. \A j \in Id : inflight[j] # 0 => inflight[j] \in Gen
    BY SizeAssumption DEF Gen
  <2> QED
    BY <2>1, <2>2, <2>3, <2>4
<1>3. CASE Raised
  BY <1>3 DEF Raised, slots
<1>4. CASE /\ Killed \/ UNCHANGED process
           /\ \/ UNCHANGED slots
              \/ \E i \in Id : Pop(i) /\ UNCHANGED discarded
              \/ \E i \in Id : GiveUp(i)
  BY <1>4 DEF Killed, process, slots, Pop, GiveUp
<1> QED
  BY <1>1, <1>2, <1>3, <1>4, ProcessEffect

-----------------------------------------------------------------------------
(* The session.                                                              *)

LEMMA TailFacts ==
  ASSUME NEW S, NEW s \in Seq(S), s # <<>>
  PROVE  /\ Head(s) = s[1] /\ 1 \in 1 .. Len(s)
         /\ Len(s) \in Nat \ {0} /\ Len(Tail(s)) = Len(s) - 1 /\ (Len(s) = 1 => Tail(s) = <<>>)
         /\ \A n \in 1 .. Len(Tail(s)) :
              Tail(s)[n] = s[n + 1] /\ n + 1 \in 1 .. Len(s) /\ (n + 1 = Len(s) => n = Len(Tail(s)))
         /\ \A n \in 2 .. Len(s) : n - 1 \in 1 .. Len(Tail(s)) /\ Tail(s)[n - 1] = s[n]
OBVIOUS

\* The steps of the processes leave the session alone.
LEMMA SessionFrame ==
  ASSUME NEW g, ProcessStep(g)
  PROVE  UNCHANGED <<capture, finalizer, session, service, finals, errors, offered, heard>>
BY DEF ProcessStep, Answer, Collapse, Exit, Read, Lose, EndOfStream, Leave,
      KillLeft, Reap, ProcessUnchanged

LEMMA OfferType ==
  ASSUME PhraseType, SessionInv, active, Offer(phrase)
  PROVE  /\ finals' \in Seq(Phrase \cup {End}) /\ Len(finals') <= Room
         /\ offered' \subseteq Phrase
<1>1. phrase \in Phrase
  BY SizeAssumption DEF PhraseType, SessionInv, Phrase
<1>2. /\ Append(finals, phrase) \in Seq(Phrase \cup {End}) /\ Len(finals) \in Nat
      /\ Len(Append(finals, phrase)) = Len(finals) + 1
  BY <1>1 DEF PhraseType
<1>3. /\ finals' = finals \/ (Len(finals) < Room /\ finals' = Append(finals, phrase))
      /\ offered' = offered \cup {phrase}
  BY DEF Offer
<1>4. /\ Len(finals) <= Room /\ finals \in Seq(Phrase \cup {End}) /\ offered \subseteq Phrase
      /\ Room \in Nat
  BY SizeAssumption DEF PhraseType
<1>5. Len(finals) < Room => Len(finals) + 1 <= Room
  BY <1>2, <1>4
<1> QED
  BY <1>1, <1>2, <1>3, <1>4, <1>5

\* A phrase more is one of the bound.
LEMMA MoreType ==
  ASSUME PhraseType, SessionType, SessionInv, Recording, MorePhrases
  PROVE  phrase + 1 \in 0 .. MaxPhrases
<1>1. starts \in Nat \ {0} /\ phrase \in Nat /\ phrase + starts <= MaxPhrases
  BY SizeAssumption DEF PhraseType, SessionType, SessionInv, Recording, MorePhrases
<1> QED
  BY <1>1, SizeAssumption

LEMMA PhraseTypeStep ==
  ASSUME [Next]_vars, PhraseType, SessionType, SessionInv
  PROVE  PhraseType'
<1> USE DEF PhraseType
<1>1. CASE FGet
  <2>1. /\ Head(finals) \in Phrase \cup {End} /\ Tail(finals) \in Seq(Phrase \cup {End})
        /\ Len(Tail(finals)) <= Room
    BY <1>1, SizeAssumption, HeadAndTail, TailFacts DEF FGet
  <2> QED
    BY <1>1, <2>1 DEF FGet, FinalizerUnchanged, capture
<1>2. ASSUME FailedAttempt, FinalizerUnchanged PROVE PhraseType'
  BY <1>2 DEF FailedAttempt, FNext, FinalizerUnchanged, capture
<1>3. CASE FSubmit
  <2>1. FailedAttempt \/ (req' \in Id /\ fpc' = "wait" /\ UNCHANGED <<item, tries, finals, heard>>)
    BY <1>3 DEF FSubmit, Sent, Fresh
  <2> QED
    BY <1>2, <1>3, <2>1 DEF FSubmit, FinalizerUnchanged, capture
<1>4. CASE FNoSlot \/ FResult \/ FGiveUp
  BY <1>2, <1>4 DEF FNoSlot, FResult, FGiveUp, FinalizerUnchanged, capture
<1>5. CASE FType
  <2>1. item \in Phrase
    BY <1>5 DEF FType, SessionInv
  <2> QED
    BY <1>5, <2>1 DEF FType, FNext, FinalizerUnchanged, capture
<1>6. CASE Onset
  BY <1>6, MoreType DEF Onset, CaptureUnchanged, finalizer
<1>7. CASE Interim
  BY <1>7 DEF Interim, Sent, Fresh, CaptureUnchanged, finalizer
<1>8. CASE Poll \/ CaptureFails
  BY <1>8 DEF Poll, CaptureFails, CaptureUnchanged, finalizer
<1>9. CASE ClosePhrase
  <2>1. phrase' \in 0 .. MaxPhrases
    BY <1>9, MoreType DEF ClosePhrase
  <2> QED
    BY <1>9, <2>1, OfferType DEF ClosePhrase, CaptureUnchanged, finalizer
<1>10. CASE CaptureStops
  BY <1>10, OfferType DEF CaptureStops, CaptureUnchanged, finalizer
<1>11. CASE Sentinel
  <2>1. /\ Append(finals, End) \in Seq(Phrase \cup {End}) /\ Len(finals) \in Nat
        /\ Len(Append(finals, End)) = Len(finals) + 1
    OBVIOUS
  <2> QED
    BY <1>11, <2>1, SizeAssumption DEF Sentinel, SessionUnchanged, capture, finalizer
<1>12. CASE Joined \/ JoinTimeout \/ AbortJoined \/ Publish \/ Release \/ Released
  BY <1>12 DEF Joined, JoinTimeout, AbortJoined, Publish, Release, Released, SessionUnchanged,
     capture, finalizer
<1>13. ASSUME Cleared, fpc' \in {"get", fpc} PROVE PhraseType'
  <2>1. <<>> \in Seq(Phrase \cup {End}) /\ Len(<<>>) = 0
    OBVIOUS
  <2> QED
    BY <1>13, <2>1, SizeAssumption DEF Cleared, End
<1>14. CASE Reset \/ Start
  BY <1>13, <1>14 DEF Reset, Start, NewSession
<1>15. CASE Toggle \/ StopCommand \/ UnloadBegins \/ UnloadEnds \/ ServiceStep \/ UNCHANGED vars
  BY <1>15 DEF Toggle, StopCommand, UnloadBegins, UnloadEnds, ServiceStep, SelfStopCheck, SelfStop,
     vars, capture, finalizer
<1>16. ASSUME NEW g, ProcessStep(g) PROVE PhraseType'
  BY <1>16, SessionFrame DEF capture, finalizer
<1> QED
  BY <1>1, <1>3, <1>4, <1>5, <1>6, <1>7, <1>8, <1>9, <1>10, <1>11, <1>12, <1>14, <1>15, <1>16
  DEF Next, FinalizerStep, CaptureStep, SessionStep, CommandStep, Rest

LEMMA SessionTypeStep ==
  ASSUME [Next]_vars, ProcessType, SessionType
  PROVE  SessionType'
<1> USE SizeAssumption DEF SessionType
<1>1. ASSUME NEW g \in Gen, ProcessStep(g) PROVE SessionType'
  <2>1. faults' \in 0 .. MaxFaults
    BY <1>1 DEF ProcessStep, Answer, Collapse, Exit, Read, Lose, EndOfStream, Leave,
      KillLeft, Reap, Fault
  <2> QED
    BY <1>1, <2>1, SessionFrame DEF session, service, capture
<1>2. CASE FinalizerStep
  <2>1. faults' \in 0 .. MaxFaults
    BY <1>2 DEF FinalizerStep, FGet, FSubmit, FNoSlot, FResult, FGiveUp, FType, Sent, Raised, Fault
  <2>2. errors' \in BOOLEAN
    BY <1>2 DEF FinalizerStep, FGet, FSubmit, FNoSlot, FResult, FGiveUp, FType, FailedAttempt
  <2> QED
    BY <1>2, <2>1, <2>2 DEF FinalizerStep, FGet, FSubmit, FNoSlot, FResult, FGiveUp, FType,
       FinalizerUnchanged, session, service, capture
<1>3. CASE CaptureStep
  <2>1. faults' \in 0 .. MaxFaults
    BY <1>3 DEF CaptureStep, Onset, Interim, Poll, ClosePhrase, CaptureStops, CaptureFails,
       Sent, Raised, Fault
  <2>2. errors' \in BOOLEAN
    BY <1>3 DEF CaptureStep, Onset, Interim, Poll, ClosePhrase, CaptureStops, CaptureFails, Offer
  <2>3. active' \in BOOLEAN /\ spc' \in {spc, "drain"}
    BY <1>3 DEF CaptureStep, Onset, Interim, Poll, ClosePhrase, CaptureStops, CaptureFails
  <2>4. CaptureUnchanged
    BY <1>3 DEF CaptureStep, Onset, Interim, Poll, ClosePhrase, CaptureStops, CaptureFails
  <2> QED
    BY <2>1, <2>2, <2>3, <2>4 DEF CaptureUnchanged, service
<1>4. CASE Sentinel \/ Joined \/ Released
  BY <1>4 DEF Sentinel, Joined, Released, SessionUnchanged, capture
<1>5. CASE JoinTimeout \/ AbortJoined
  <2>1. abort' \in BOOLEAN /\ errors' \in BOOLEAN /\ spc' \in {"abort", "publish"}
    BY <1>5 DEF JoinTimeout, AbortJoined
  <2>2. SessionUnchanged /\ UNCHANGED <<claimed, retiring>>
    BY <1>5 DEF JoinTimeout, AbortJoined
  <2> QED
    BY <2>1, <2>2 DEF SessionUnchanged, capture
<1>6. CASE Publish
  <2>1. claimed' \in BOOLEAN /\ spc' \in {"reset", "release"}
    BY <1>6 DEF Publish
  <2> QED
    BY <1>6, <2>1 DEF Publish, SessionUnchanged, capture
<1>7. CASE Release \/ UnloadBegins
  <2>1. retiring' \in 0 .. MaxGen
    BY <1>7 DEF Release, UnloadBegins, StopWorker, ProcessType
  <2>2. CASE Release
    BY <2>1, <2>2 DEF Release, SessionUnchanged, capture
  <2>3. CASE UnloadBegins
    BY <2>1, <2>3 DEF UnloadBegins, capture, session
  <2> QED
    BY <1>7, <2>2, <2>3
<1>8. CASE Reset \/ Start
  <2>1. Cleared /\ UNCHANGED <<down, retiring, locked, warm, faults>> /\ restart' = FALSE
    BY <1>8 DEF Reset, Start, NewSession
  <2>2. starts' \in 0 .. MaxStarts /\ selfstop' \in {"none", "sleep", selfstop}
        /\ spc' \in {"record", "idle"}
    BY <1>8 DEF Reset, Start, NewSession
  <2> QED
    BY <2>1, <2>2 DEF Cleared
<1>9. CASE Toggle \/ StopCommand
  <2>1. stop' \in BOOLEAN /\ restart' \in BOOLEAN
    BY <1>9 DEF Toggle, StopCommand
  <2> QED
    BY <1>9, <2>1 DEF Toggle, StopCommand, capture
<1>10. CASE UnloadEnds \/ SelfStopCheck \/ SelfStop
  <2>1. CASE UnloadEnds
    <3>1. UNCHANGED <<spc, stop, abort, errors, active, claimed, restart, down, warm, selfstop,
                      starts, faults>>
      BY <2>1 DEF UnloadEnds, capture, session
    <3>2. locked' = FALSE /\ retiring' = 0 /\ 0 \in 0 .. MaxGen
      BY <2>1 DEF UnloadEnds
    <3> QED
      BY <3>1, <3>2, ZenonT(60)
  <2>2. CASE SelfStopCheck \/ SelfStop
    <3>1. UNCHANGED <<spc, stop, abort, errors, active, claimed, restart, locked, warm, retiring,
                      starts, faults>>
      BY <2>2 DEF SelfStopCheck, SelfStop, capture, session
    <3>2. selfstop' \in {"go", "none"} /\ down' \in {TRUE, down}
      BY <2>2 DEF SelfStopCheck, SelfStop
    <3>3. selfstop' \in {"none", "sleep", "go"} /\ down' \in BOOLEAN
      BY <3>2
    <3> QED
      BY <3>1, <3>3, ZenonT(60)
  <2> QED
    BY <1>10, <2>1, <2>2
<1>11. CASE UNCHANGED vars
  BY <1>11 DEF vars, capture, session, service
<1> QED
  BY <1>1, <1>2, <1>3, <1>4, <1>5, <1>6, <1>7, <1>8, <1>9, <1>10, <1>11
  DEF Next, SessionStep, CommandStep, ServiceStep, Rest

LEMMA SessionInvStep ==
  ASSUME [Next]_vars, PhraseType, SessionType, SessionInv
  PROVE  SessionInv'
<1> USE DEF SessionInv
<1>1. ASSUME NEW g, ProcessStep(g) PROVE SessionInv'
  BY <1>1, SessionFrame DEF capture, finalizer, session, service
<1>2. CASE FGet
  <2>1. finals # <<>> /\ finals \in Seq(Phrase \cup {End})
    BY <1>2 DEF FGet, PhraseType
  <2>2. spc \notin Ended /\ spc' = spc /\ finals' = Tail(finals) /\ item' = Head(finals)
    BY <1>2 DEF FGet, FinalizerUnchanged, session
  <2>3. \A n \in 1 .. Len(finals') : finals'[n] = End =>
          n = Len(finals') /\ spc' \notin {"record", "drain"}
    BY <2>1, <2>2, TailFacts
  <2>4. item' = End => Len(finals) = 1 /\ spc \notin {"record", "drain"}
    BY <2>1, <2>2, TailFacts
  <2>5. item' = End => finals' = <<>>
    BY <2>1, <2>2, <2>4, TailFacts
  <2>6. item' # End => item' \in Phrase
    <3>1. Head(finals) \in Phrase \cup {End}
      BY <2>1, HeadAndTail
    <3> QED
      BY <2>2, <3>1
  <2> QED
    BY <1>2, <2>2, <2>3, <2>4, <2>5, <2>6 DEF FGet, FinalizerUnchanged, capture, session, service
<1>3. ASSUME FailedAttempt, FinalizerUnchanged, fpc \in {"submit", "wait"} PROVE SessionInv'
  BY <1>3 DEF FailedAttempt, FNext, FinalizerUnchanged, capture, session, service, Ended, SessionType
<1>4. CASE FSubmit
  <2>1. \/ FailedAttempt
        \/ req' \in Id /\ fpc' = "wait" /\ UNCHANGED <<item, tries, finals, errors, heard>>
    BY <1>4 DEF FSubmit, Sent, Fresh
  <2> QED
    BY <1>3, <1>4, <2>1 DEF FSubmit, FinalizerUnchanged, capture, session, service, Ended
<1>5. CASE FNoSlot \/ FResult \/ FGiveUp
  BY <1>3, <1>5 DEF FNoSlot, FResult, FGiveUp, FinalizerUnchanged, capture, session, service, Ended
<1>6. CASE FType
  BY <1>6 DEF FType, FNext, FinalizerUnchanged, capture, session, service, Ended, SessionType
<1>7. ASSUME Offer(phrase), active PROVE
        \A n \in 1 .. Len(finals') : finals'[n] = End => n \in 1 .. Len(finals) /\ finals[n] = End
  BY <1>7 DEF Offer, PhraseType, End
<1>8. CASE CaptureStep
  <2>1. CaptureUnchanged /\ spc = "record" /\ spc' \in {"record", "drain"}
    BY <1>8 DEF CaptureStep, Onset, Interim, Poll, ClosePhrase, CaptureStops, CaptureFails, Recording
  <2>2. active' => phrase' > 0
    <3>1. phrase \in Nat
      BY SizeAssumption DEF PhraseType
    <3>2. \/ active' = FALSE \/ phrase' = phrase + 1 \/ UNCHANGED <<active, phrase>>
      BY <1>8 DEF CaptureStep, Onset, Interim, Poll, ClosePhrase, CaptureStops, CaptureFails
    <3>3. phrase' = phrase + 1 => phrase' > 0
      BY <3>1
    <3> QED
      BY <3>2, <3>3
  <2>3. \/ UNCHANGED finals
        \/ Offer(phrase) /\ active
    BY <1>8 DEF CaptureStep, Onset, Interim, Poll, ClosePhrase, CaptureStops, CaptureFails
  <2> QED
    BY <1>7, <2>1, <2>2, <2>3 DEF CaptureUnchanged, finalizer, service, Ended, PhraseType
<1>9. CASE Sentinel
  BY <1>9 DEF Sentinel, SessionUnchanged, capture, finalizer, PhraseType, Ended
<1>10. CASE Joined \/ JoinTimeout \/ AbortJoined \/ Publish \/ Release \/ Released
  BY <1>10 DEF Joined, JoinTimeout, AbortJoined, Publish, Release, Released, SessionUnchanged,
     capture, finalizer, Ended
<1>11. CASE Reset \/ Start
  BY <1>11 DEF Reset, Start, NewSession, Cleared, SessionType, Ended
<1>12. CASE Toggle \/ StopCommand \/ UnloadBegins \/ UnloadEnds \/ ServiceStep \/ UNCHANGED vars
  BY <1>12 DEF Toggle, StopCommand, UnloadBegins, UnloadEnds, ServiceStep, SelfStopCheck, SelfStop,
     vars, capture, finalizer, session, service
<1> QED
  BY <1>1, <1>2, <1>4, <1>5, <1>6, <1>8, <1>9, <1>10, <1>11, <1>12
  DEF Next, FinalizerStep, SessionStep, CommandStep, Rest

\* A phrase goes from the queue to the finalizer and from there to the transcript,
\* and is lost only where an error is recorded.
LEMMA PhraseInvStep ==
  ASSUME [Next]_vars, PhraseType, SessionType, SessionInv, PhraseInv
  PROVE  PhraseInv'
<1>1. ASSUME NEW g, ProcessStep(g) PROVE PhraseInv'
  BY <1>1, SessionFrame DEF PhraseInv, Pending, InHand, capture, finalizer, session, service
<1>2. CASE FGet
  <2>1. /\ finals # <<>> /\ finals \in Seq(Phrase \cup {End}) /\ fpc = "get"
        /\ finals' = Tail(finals) /\ item' = Head(finals)
        /\ UNCHANGED <<errors, offered, heard, spc, claimed>>
        /\ item' # End => fpc' = "submit"
    BY <1>2 DEF FGet, FinalizerUnchanged, session, PhraseType
  <2>2. Pending \subseteq Pending' \cup {item'}
    <3>1. SUFFICES ASSUME NEW n \in 1 .. Len(finals), n # 1 PROVE finals[n] \in Pending'
      BY <2>1, TailFacts DEF Pending
    <3>2. n \in 2 .. Len(finals)
      BY <2>1, <3>1, TailFacts
    <3>3. n - 1 \in 1 .. Len(Tail(finals)) /\ Tail(finals)[n - 1] = finals[n]
      BY <2>1, <3>2, TailFacts
    <3> QED
      BY <2>1, <3>3 DEF Pending
  <2>3. InHand = {} /\ (item' # End => InHand' = {item'})
    BY <2>1 DEF InHand
  <2>4. offered \subseteq Phrase /\ End \notin Phrase
    BY DEF PhraseType, Phrase, End
  <2>5. ~errors => offered \subseteq heard \cup InHand' \cup Pending'
    BY <2>2, <2>3, <2>4 DEF PhraseInv
  <2> QED
    BY <2>1, <2>5 DEF PhraseInv
<1>3. ASSUME FailedAttempt, FinalizerUnchanged, fpc \in {"submit", "wait"} PROVE PhraseInv'
  <2>1. UNCHANGED <<item, finals, heard, offered, spc, claimed>> /\ spc \notin Ended
    BY <1>3 DEF FailedAttempt, FinalizerUnchanged, session, SessionInv
  <2>2. errors' = TRUE \/ (fpc' = "submit" /\ UNCHANGED errors)
    BY <1>3 DEF FailedAttempt
  <2> QED
    BY <1>3, <2>1, <2>2 DEF PhraseInv, Pending, InHand, Ended
<1>4. CASE FSubmit \/ FNoSlot \/ FResult \/ FGiveUp
  <2>1. fpc \in {"submit", "wait"} /\ FinalizerUnchanged
    BY <1>4 DEF FSubmit, FNoSlot, FResult, FGiveUp
  <2>2. \/ FailedAttempt
        \/ fpc' \in {"wait", "type"} /\ UNCHANGED <<item, finals, errors, heard>>
    BY <1>4 DEF FSubmit, FNoSlot, FResult, FGiveUp
  <2> QED
    BY <1>3, <2>1, <2>2 DEF FinalizerUnchanged, session, PhraseInv, Pending, InHand
<1>5. CASE FType
  <2>1. /\ fpc = "type" /\ heard' = heard \cup {item} /\ fpc' \in {"off", "get"}
        /\ UNCHANGED <<item, finals, errors, offered, spc, claimed>> /\ spc \notin Ended
    BY <1>5 DEF FType, FNext, FinalizerUnchanged, session, SessionInv
  <2> QED
    BY <2>1 DEF PhraseInv, Pending, InHand, Ended
<1>6. ASSUME Offer(phrase) PROVE
        errors' \/ (/\ offered' = offered \cup {phrase} /\ errors' = errors
                    /\ Pending' = Pending \cup {phrase})
  <2>1. CASE Len(finals) < Room
    <3>1. finals' = Append(finals, phrase) /\ finals \in Seq(Phrase \cup {End})
      BY <1>6, <2>1 DEF Offer, PhraseType
    <3>2. /\ Len(finals') = Len(finals) + 1 /\ Len(finals) \in Nat
          /\ \A n \in 1 .. Len(finals) : finals'[n] = finals[n]
          /\ finals'[Len(finals) + 1] = phrase
      BY <3>1
    <3>3. 1 .. Len(finals') = (1 .. Len(finals)) \cup {Len(finals) + 1}
      BY <3>2
    <3>4. Pending' = Pending \cup {phrase}
      BY <3>2, <3>3 DEF Pending
    <3> QED
      BY <1>6, <2>1, <3>4 DEF Offer
  <2>2. CASE ~(Len(finals) < Room)
    BY <1>6, <2>2 DEF Offer
  <2> QED
    BY <2>1, <2>2
<1>7. CASE CaptureStep
  <2>1. spc = "record" /\ spc' \in {"record", "drain"} /\ UNCHANGED <<fpc, item, heard, claimed>>
    BY <1>7 DEF CaptureStep, Onset, Interim, Poll, ClosePhrase, CaptureStops, CaptureFails,
       Recording, CaptureUnchanged, finalizer
  <2>2. \/ UNCHANGED <<finals, offered>> /\ (errors' = TRUE \/ UNCHANGED errors)
        \/ Offer(phrase)
    BY <1>7 DEF CaptureStep, Onset, Interim, Poll, ClosePhrase, CaptureStops, CaptureFails
  <2> QED
    BY <1>6, <2>1, <2>2 DEF PhraseInv, Pending, InHand
<1>8. CASE Sentinel
  <2>1. UNCHANGED <<fpc, item, heard, claimed, errors, offered>> /\ spc = "drain" /\ spc' = "join"
    BY <1>8 DEF Sentinel, SessionUnchanged, finalizer
  <2>2. finals' = finals \/ finals' = Append(finals, End)
    BY <1>8 DEF Sentinel
  <2>3. Pending \subseteq Pending'
    BY <2>2 DEF Pending, PhraseType
  <2> QED
    BY <2>1, <2>3 DEF PhraseInv, InHand
<1>9. CASE Joined
  <2>1. UNCHANGED <<fpc, item, heard, claimed, errors, offered, finals>> /\ spc' = "publish"
    BY <1>9 DEF Joined, SessionUnchanged, finalizer
  <2>2. InHand = {} /\ Pending = {} /\ ~claimed
    BY <1>9 DEF Joined, InHand, Pending, SessionInv, PhraseInv
  <2> QED
    BY <2>1, <2>2 DEF PhraseInv, InHand, Pending
<1>10. CASE JoinTimeout
  BY <1>10 DEF JoinTimeout, SessionUnchanged, finalizer, PhraseInv, InHand, Pending
<1>11. CASE AbortJoined
  BY <1>11 DEF AbortJoined, SessionUnchanged, PhraseInv
<1>12. CASE Publish
  BY <1>12 DEF Publish, SessionUnchanged, finalizer, PhraseInv, InHand, Pending
<1>13. CASE Release \/ Released
  BY <1>13 DEF Release, Released, SessionUnchanged, finalizer, PhraseInv, InHand, Pending
<1>14. CASE Reset \/ Start
  BY <1>14 DEF Reset, Start, NewSession, Cleared, PhraseInv
<1>15. CASE Toggle \/ StopCommand \/ UnloadBegins \/ UnloadEnds \/ ServiceStep \/ UNCHANGED vars
  BY <1>15 DEF Toggle, StopCommand, UnloadBegins, UnloadEnds, ServiceStep, SelfStopCheck, SelfStop,
     vars, finalizer, session, PhraseInv, InHand, Pending
<1> QED
  BY <1>1, <1>2, <1>4, <1>5, <1>7, <1>8, <1>9, <1>10, <1>11, <1>12, <1>13, <1>14, <1>15
  DEF Next, FinalizerStep, SessionStep, CommandStep, Rest

\* After the release nothing asks for a process until the next session.
LEMMA ReleaseInvStep ==
  ASSUME [Next]_vars, ProcessType, SessionType, PhraseType, ProcInv, SessionInv, ReleaseInv
  PROVE  ReleaseInv'
<1> DEFINE Free == \A g \in Gen : proc[g] # "alive"
<1> USE DEF ProcessType
<1>1. ASSUME NEW g \in Gen, ProcessStep(g) PROVE ReleaseInv'
  <2>1. Free => Free'
    BY <1>1 DEF ProcessStep, Answer, Collapse, Exit, Read, Lose, EndOfStream, Leave,
      KillLeft, Reap
  <2> QED
    BY <1>1, <2>1, SessionFrame DEF ReleaseInv, session, service
<1>2. CASE FinalizerStep
  <2>1. UNCHANGED <<spc, warm>> /\ spc \notin Ended
    BY <1>2 DEF FinalizerStep, FGet, FSubmit, FNoSlot, FResult, FGiveUp, FType, FinalizerUnchanged,
       session, service, SessionInv
  <2> QED
    BY <2>1 DEF ReleaseInv, Ended
<1>3. CASE CaptureStep
  <2>1. spc' \in {"record", "drain"}
    BY <1>3 DEF CaptureStep, Onset, Interim, Poll, ClosePhrase, CaptureStops, CaptureFails, Recording
  <2> QED
    BY <2>1 DEF ReleaseInv
<1>4. CASE Release
  <2>1. Kill(gen) /\ warm' = warm
    BY <1>4 DEF Release, StopWorker, SessionUnchanged
  <2>2. Free'
    BY <2>1 DEF Kill, ProcInv
  <2> QED
    BY <2>2 DEF ReleaseInv
<1>5. CASE UnloadBegins
  <2>1. Kill(gen) /\ UNCHANGED <<warm, spc>>
    BY <1>5 DEF UnloadBegins, StopWorker, session
  <2>2. Free => Free'
    BY <2>1 DEF Kill
  <2> QED
    BY <2>1, <2>2 DEF ReleaseInv
<1>6. CASE Sentinel \/ Joined \/ JoinTimeout \/ AbortJoined
  <2>1. spc' \in {"join", "publish", "abort"}
    BY <1>6 DEF Sentinel, Joined, JoinTimeout, AbortJoined
  <2> QED
    BY <2>1 DEF ReleaseInv
<1>7. CASE Publish
  <2>1. warm' = warm /\ (~warm => spc' = "release")
    BY <1>7 DEF Publish, SessionUnchanged
  <2> QED
    BY <2>1 DEF ReleaseInv
<1>8. CASE Released \/ Reset
  <2>1. warm' = warm /\ proc' = proc /\ spc \in {"wait", "reset"}
    BY <1>8 DEF Released, Reset, SessionUnchanged, process
  <2> QED
    BY <2>1 DEF ReleaseInv
<1>9. CASE Start
  BY <1>9 DEF Start, NewSession, ReleaseInv
<1>10. CASE Toggle \/ StopCommand \/ UnloadEnds \/ ServiceStep \/ UNCHANGED vars
  BY <1>10 DEF Toggle, StopCommand, UnloadEnds, ServiceStep, SelfStopCheck, SelfStop,
     vars, process, session, service, ReleaseInv
<1> QED
  BY <1>1, <1>2, <1>3, <1>4, <1>5, <1>6, <1>7, <1>8, <1>9, <1>10
  DEF Next, SessionStep, CommandStep, Rest

-----------------------------------------------------------------------------
(* The theorems.                                                             *)

LEMMA InitInv == Init => IInv
<1> SUFFICES ASSUME Init PROVE IInv
  OBVIOUS
<1> USE SizeAssumption
<1>1. ProcessType /\ MailType /\ SlotType
  <2>1. gen \in 0 .. MaxGen /\ held \in BOOLEAN
    BY DEF Init, Gen
  <2> QED
    BY <2>1 DEF Init, ProcessType, MailType, SlotType
<1>2. PhraseType
  BY DEF Init, PhraseType
<1>7. SessionType
  <2>1. /\ warm \in BOOLEAN
        /\ stop = FALSE /\ abort = FALSE /\ errors = FALSE /\ active = FALSE
        /\ restart = FALSE /\ down = FALSE /\ locked = FALSE /\ claimed = FALSE
    BY DEF Init
  <2>2. spc = "idle" /\ selfstop = "none"
    BY DEF Init
  <2>3. retiring \in 0 .. MaxGen /\ starts \in 0 .. MaxStarts /\ faults \in 0 .. MaxFaults
    BY DEF Init
  <2> QED
    BY <2>1, <2>2, <2>3, ZenonT(60) DEF SessionType
<1>3. InFlight = {}
  BY DEF Init, InFlight
<1>4. IsFiniteSet(InFlight) /\ SlotsAreLimited
  <2>1. Cardinality(InFlight) = 0 /\ IsFiniteSet(InFlight)
    BY <1>3, FS_EmptySet
  <2> QED
    BY <2>1 DEF SlotsAreLimited, InFlight
<1>5. ProcInv /\ ReleaseInv
  <2>1. CASE warm
    BY <2>1 DEF Init, ProcInv, ReleaseInv, Gen
  <2>2. CASE ~warm
    BY <2>2 DEF Init, ProcInv, ReleaseInv, Gen
  <2> QED
    BY <2>1, <2>2
<1>6. SlotInv /\ SessionInv /\ PhraseInv
  BY DEF Init, SlotInv, SessionInv, PhraseInv, Ended
<1> QED
  BY <1>1, <1>2, <1>4, <1>5, <1>6, <1>7 DEF IInv, TypeOK

LEMMA NextInv == IInv /\ [Next]_vars => IInv'
BY ProcessTypeStep, MailTypeStep, SlotTypeStep, SlotLimitStep, PhraseTypeStep, SessionTypeStep,
   ProcInvStep, SlotInvStep, SessionInvStep, PhraseInvStep, ReleaseInvStep
DEF IInv, TypeOK

THEOREM Invariance == Spec => []IInv
BY InitInv, NextInv, PTL DEF Spec

\* Every variable stays in its range, and no more than Limit requests are in flight.
THEOREM TypeCorrect == Spec => []TypeOK
<1>1. IInv => TypeOK
  BY DEF IInv
<1> QED
  BY <1>1, Invariance, PTL

\* No request keeps a slot beyond the end of its reader, whatever dies when, unless
\* that reader gave up on a living process.
THEOREM SlotsFreed == Spec => []SlotsAreFreed
<1>1. IInv => SlotsAreFreed
  BY DEF IInv, SlotInv, SlotsAreFreed, InFlight
<1> QED
  BY <1>1, Invariance, PTL

\* A transcript that claims to be complete is.
THEOREM CompleteTruly == Spec => []CompleteIsComplete
<1>1. IInv => CompleteIsComplete
  BY DEF IInv, PhraseInv, CompleteIsComplete
<1> QED
  BY <1>1, Invariance, PTL

\* An on-demand service holds no process between sessions.
THEOREM ReleasedBetween == Spec => []ReleasedWhenIdle
<1>1. IInv => ReleasedWhenIdle
  BY DEF IInv, ReleaseInv, ReleasedWhenIdle
<1> QED
  BY <1>1, Invariance, PTL
=============================================================================
