--------------------------- MODULE ClipIngest_proofs ---------------------------
(***************************************************************************)
(* What module ClipIngest states of the clips of a run, for any number of  *)
(* videos, executions, attempts, faults, failures and submissions: only a  *)
(* race stores a clip twice, and the last clip of a manifest is noticed.   *)
(***************************************************************************)
EXTENDS ClipIngest, FiniteSetTheorems, SequenceTheorems, WellFoundedInduction, TLAPS

-----------------------------------------------------------------------------
(* The inductive invariant.                                                *)

Asked(t)  == sora[t] # "none"
Active(w) == call[w].pc \in {"fetching", "inserted", "counted"}

\* What a call may be doing.  The task of an event has been submitted, and what a
\* poll has counted is still there.
CallsOK ==
    \A w \in Workers :
        /\ Idle(w) => call[w] = NoCall
        /\ ~Idle(w) => call[w].op # "none" /\ manifest # {}
        /\ call[w].op = "hook" => \E t \in Tasks : call[w].tasks = {t} /\ Asked(t)
        /\ call[w].op = "poll" => call[w].pc \in {"fetching", "inserted"}
        /\ call[w].rows <= Len(clips)

\* Who has counted under the lock is alone in it, and has counted well.
LockOK ==
    \A w \in Workers : call[w].pc = "counted" =>
        /\ \A v \in Workers \ {w} : call[v].pc \notin {"inserted", "counted"}
        /\ call[w].ready <=> Complete(Len(clips) + 1)

\* What two calls ingest, and what one ingests though it is stored, is contested.
RacesOK ==
    /\ \A v, w \in Workers, t \in Tasks :
          v # w /\ t \in call[v].tasks /\ t \in call[w].tasks => t \in contested
    /\ \A w \in Workers, t \in Tasks :
          Active(w) /\ t \in call[w].tasks /\ t \in Stored => t \in contested

\* Nothing happens before there is a manifest; a task belongs to a submission that
\* was made, and a clip to a task.
BegunOK ==
    /\ manifest = {} => /\ repairs = 0
                        /\ \A t \in Tasks : ~Asked(t)
                        /\ thread # "waiting" /\ poll = "absent" /\ ~Resuming
    /\ \A t \in Tasks : Asked(t) => t.gen <= repairs
    /\ \A t \in Stored : Asked(t)
    /\ \A t \in Tasks : hook[t] # "absent" => manifest # {}

\* While there is one submission, its tasks are all the tasks there are.
OneSubmission ==
    repairs = 0 => \A t \in Tasks : Asked(t) => t \in manifest

\* With TypeOK, what every reachable state satisfies.
ClipInv ==
    /\ CallsOK /\ LockOK /\ RacesOK /\ BegunOK /\ OneSubmission
    /\ SecondClipNeedsRace /\ EarlyResumeExplained

-----------------------------------------------------------------------------
(* Sequences without repetition, and the newest clip.                      *)

LEMMA TasksAreFinite ==
    /\ IsFiniteSet(Tasks)
    /\ \A T \in SUBSET Tasks : IsFiniteSet(T) /\ Cardinality(T) \in Nat
<1>. DEFINE P == Indices \X (0 .. MaxRepairs)
            f == [t \in Tasks |-> <<t.index, t.gen>>]
<1>1. IsFiniteSet(Indices) /\ IsFiniteSet(0 .. MaxRepairs)
  BY ClipsAssumption, FS_Interval DEF Indices
<1>2. IsFiniteSet(P)
  BY <1>1, FS_Product
<1>3. \A t \in Tasks : f[t] \in P
  BY DEF Tasks
<1>4. \A t, u \in Tasks : f[t] = f[u] => t = u
  BY DEF Tasks
<1>5. f \in Injection(Tasks, P)
  BY <1>3, <1>4 DEF Injection, IsInjective
<1>6. IsFiniteSet(Tasks)
  <2>. HIDE DEF f, P
  <2>. QED
    BY <1>2, <1>5, FS_Injection
<1>. QED
  BY <1>6, FS_Subset, FS_CardinalityType

LEMMA SetToSeqFacts ==
    ASSUME NEW S, NEW F \in SUBSET S, IsFiniteSet(F)
    PROVE  /\ SetToSeq(F) \in Seq(S)
           /\ Len(SetToSeq(F)) = Cardinality(F)
           /\ IsInjective(SetToSeq(F))
           /\ Range(SetToSeq(F)) \subseteq F
<1>. DEFINE n == Cardinality(F)
            s == SetToSeq(F)
<1>1. n \in Nat /\ ExistsBijection(1 .. n, F)
  BY FS_CardinalityType
<1>2. \E f \in [1 .. n -> F] : IsInjective(f)
  BY <1>1 DEF ExistsBijection, Bijection, Injection
<1>3. s \in [1 .. n -> F] /\ IsInjective(s)
  BY <1>2 DEF SetToSeq
<1>. HIDE DEF s, n
<1>4. s \in Seq(S) /\ DOMAIN s = 1 .. n
  BY <1>1, <1>3 
<1>5. Len(s) = n
  BY <1>1, <1>4
<1>6. Range(s) \subseteq F
  BY <1>3 DEF Range
<1>. QED
  BY <1>3, <1>4, <1>5, <1>6 DEF s, n

LEMMA OneElement ==
    ASSUME NEW S, NEW e \in S, NEW x, x = <<e>>
    PROVE  x \in Seq(S) /\ Len(x) = 1 /\ IsInjective(x) /\ Range(x) = {e}
<1>1. x \in Seq(S) /\ Len(x) = 1 /\ x[1] = e /\ DOMAIN x = {1}
  OBVIOUS
<1>2. IsInjective(x)
  BY <1>1 DEF IsInjective
<1>3. Range(x) = {e}
  BY <1>1 DEF Range
<1>. QED
  BY <1>1, <1>2, <1>3

\* A longer sequence, by its range and by its repetitions.
LEMMA ConcatPlaces ==
    ASSUME NEW S, NEW s \in Seq(S), NEW x \in Seq(S), NEW y, y = s \o x
    PROVE  /\ y \in Seq(S)
           /\ Len(s) \in Nat /\ Len(x) \in Nat /\ Len(y) = Len(s) + Len(x)
           /\ \A i \in DOMAIN s : i \in DOMAIN y /\ y[i] = s[i]
           /\ \A i \in DOMAIN x : Len(s) + i \in DOMAIN y /\ y[Len(s) + i] = x[i]
           /\ \A i \in DOMAIN y : /\ i \in Nat
                                  /\ \/ i \in DOMAIN s /\ y[i] = s[i]
                                     \/ i - Len(s) \in DOMAIN x /\ y[i] = x[i - Len(s)]
<1>1. /\ y \in Seq(S) /\ Len(y) = Len(s) + Len(x)
      /\ Len(s) \in Nat /\ Len(x) \in Nat
      /\ DOMAIN s = 1 .. Len(s) /\ DOMAIN x = 1 .. Len(x) /\ DOMAIN y = 1 .. Len(s) + Len(x)
      /\ \A i \in 1 .. Len(s) + Len(x) : y[i] = IF i <= Len(s) THEN s[i] ELSE x[i - Len(s)]
  BY ConcatProperties, LenProperties
<1>. QED
  BY <1>1

LEMMA ConcatFacts ==
    ASSUME NEW S, NEW s \in Seq(S), NEW x \in Seq(S)
    PROVE  /\ s \o x \in Seq(S)
           /\ Len(s \o x) = Len(s) + Len(x)
           /\ Range(s \o x) = Range(s) \cup Range(x)
<1>. DEFINE y == s \o x
<1>1. y = s \o x
  OBVIOUS
<1>. HIDE DEF y
<1>2. Range(y) = Range(s) \cup Range(x)
  <2>1. /\ \A i \in DOMAIN s : i \in DOMAIN y /\ y[i] = s[i]
        /\ \A i \in DOMAIN x : Len(s) + i \in DOMAIN y /\ y[Len(s) + i] = x[i]
        /\ \A i \in DOMAIN y : \/ i \in DOMAIN s /\ y[i] = s[i]
                               \/ i - Len(s) \in DOMAIN x /\ y[i] = x[i - Len(s)]
    BY <1>1, ConcatPlaces
  <2>2. Range(s) \subseteq Range(y)
    BY <2>1 DEF Range
  <2>3. Range(x) \subseteq Range(y)
    BY <2>1 DEF Range
  <2>4. Range(y) \subseteq Range(s) \cup Range(x)
    BY <2>1 DEF Range
  <2>. QED
    BY <2>2, <2>3, <2>4
<1>. QED
  BY <1>1, <1>2, ConcatPlaces

\* Whatever is in s at two places is in C.
RepeatsIn(s, C) == \A k, l \in DOMAIN s : (k # l /\ s[k] = s[l]) => s[k] \in C

LEMMA ConcatRepeats ==
    ASSUME NEW S, NEW s \in Seq(S), NEW x \in Seq(S), NEW C,
           RepeatsIn(s, C), IsInjective(x), Range(s) \cap Range(x) \subseteq C
    PROVE  RepeatsIn(s \o x, C)
<1>. SUFFICES ASSUME NEW y, y = s \o x, NEW k \in DOMAIN y, NEW l \in DOMAIN y,
                     k # l, y[k] = y[l]
              PROVE  y[k] \in C
  BY DEF RepeatsIn
<1>1. /\ Len(s) \in Nat /\ k \in Nat /\ l \in Nat
      /\ \/ k \in DOMAIN s /\ y[k] = s[k]
         \/ k - Len(s) \in DOMAIN x /\ y[k] = x[k - Len(s)]
      /\ \/ l \in DOMAIN s /\ y[l] = s[l]
         \/ l - Len(s) \in DOMAIN x /\ y[l] = x[l - Len(s)]
  BY ConcatPlaces
<1>2. CASE k \in DOMAIN s /\ y[k] = s[k] /\ l \in DOMAIN s /\ y[l] = s[l]
  BY <1>2 DEF RepeatsIn
<1>3. CASE k - Len(s) \in DOMAIN x /\ y[k] = x[k - Len(s)]
           /\ l - Len(s) \in DOMAIN x /\ y[l] = x[l - Len(s)]
  <2>1. k - Len(s) = l - Len(s)
    BY <1>3 DEF IsInjective
  <2>. QED
    BY <1>1, <2>1
<1>4. CASE \/ k \in DOMAIN s /\ y[k] = s[k] /\ l - Len(s) \in DOMAIN x /\ y[l] = x[l - Len(s)]
           \/ l \in DOMAIN s /\ y[l] = s[l] /\ k - Len(s) \in DOMAIN x /\ y[k] = x[k - Len(s)]
  <2>1. y[k] \in Range(s) \cap Range(x)
    BY <1>4 DEF Range
  <2>. QED
    BY <2>1
<1>. QED
  BY <1>1, <1>2, <1>3, <1>4

\* A sequence has at most as many elements as its length; if it has no
\* repetitions and all its elements are in M, then it is M as soon as it is as long.
LEMMA RangeIsFinite ==
    ASSUME NEW s \in Seq(Tasks)
    PROVE  Cardinality(Range(s)) \in Nat /\ Cardinality(Range(s)) <= Len(s)
<1>1. Len(s) \in Nat /\ s \in [1 .. Len(s) -> Tasks] /\ DOMAIN s = 1 .. Len(s)
  BY LenProperties
<1>2. s \in Surjection(1 .. Len(s), Range(s))
  BY <1>1 DEF Surjection, Range
<1>3. IsFiniteSet(1 .. Len(s)) /\ Cardinality(1 .. Len(s)) = Len(s)
  BY <1>1, FS_Interval
<1>4. IsFiniteSet(Range(s)) /\ Cardinality(Range(s)) <= Len(s)
  BY <1>2, <1>3, FS_Surjection
<1>. QED
  BY <1>4, FS_CardinalityType

LEMMA ChosenAreAll ==
    ASSUME NEW s \in Seq(Tasks), IsInjective(s), NEW M \in SUBSET Tasks,
           Cardinality({k \in DOMAIN s : s[k] \in M}) >= Cardinality(M)
    PROVE  M \subseteq Range(s)
<1>. DEFINE K == {k \in DOMAIN s : s[k] \in M}
            f == [k \in K |-> s[k]]
<1>1. Len(s) \in Nat /\ s \in [1 .. Len(s) -> Tasks] /\ DOMAIN s = 1 .. Len(s)
  BY LenProperties
<1>2. f \in Injection(K, M)
  BY <1>1 DEF Injection, IsInjective
<1>3. IsFiniteSet(M) /\ Cardinality(M) \in Nat
  BY TasksAreFinite
<1>4. \A m \in Range(f) : m \in Range(s)
  BY DEF Range
<1>5. Cardinality(K) >= Cardinality(M)
  OBVIOUS
<1>. HIDE DEF f, K
<1>6. IsFiniteSet(K) /\ Cardinality(K) <= Cardinality(M)
  BY <1>2, <1>3, FS_Injection
<1>7. Cardinality(K) \in Nat
  BY <1>6, FS_CardinalityType
<1>8. Cardinality(K) = Cardinality(M)
  BY <1>3, <1>5, <1>6, <1>7
<1>9. f \in Surjection(K, M)
  BY <1>2, <1>3, <1>8, FS_Injection
<1>10. M \subseteq Range(f)
  BY <1>9 DEF Surjection, Range
<1>. QED
  BY <1>4, <1>10

LEMMA EnoughAreAll ==
    ASSUME NEW s \in Seq(Tasks), IsInjective(s), NEW M \in SUBSET Tasks,
           Range(s) \subseteq M, Len(s) >= Cardinality(M)
    PROVE  M \subseteq Range(s)
<1>1. Len(s) \in Nat /\ s \in [1 .. Len(s) -> Tasks] /\ DOMAIN s = 1 .. Len(s)
  BY LenProperties
<1>2. {k \in DOMAIN s : s[k] \in M} = 1 .. Len(s)
  BY <1>1 DEF Range
<1>3. Cardinality(1 .. Len(s)) = IF 1 > Len(s) THEN 0 ELSE Len(s) - 1 + 1
  BY <1>1, 1 \in Int, Len(s) \in Int, FS_Interval
<1>4. Cardinality(1 .. Len(s)) = Len(s)
  BY <1>1, <1>3
<1>. QED
  BY <1>2, <1>4, ChosenAreAll

\* The newest clip of an index is a clip: of finitely many, one is the last.
LEMMA NewestIsStored ==
    ASSUME clips \in Seq(Tasks), NEW i \in Known
    PROVE  Newest(i) \in Stored
<1>. DEFINE at == {k \in DOMAIN clips : clips[k].index = i}
            down == {Len(clips) - k : k \in at}
            R == OpToRel(<, Nat)
<1>1. Len(clips) \in Nat /\ DOMAIN clips = 1 .. Len(clips)
  BY LenProperties
<1>2. at # {} /\ down # {} /\ down \subseteq Nat
  BY <1>1 DEF Known, Stored, Range
<1>3. PICK m \in down : \A n \in down : ~ (<<n, m>> \in R)
  <2>. HIDE DEF down
  <2>. QED
    BY <1>2, NatLessThanWellFounded, WFMin
<1>4. \A n \in down : ~ (n < m)
  BY <1>2, <1>3 DEF OpToRel
<1>5. PICK k \in at : m = Len(clips) - k
  BY <1>3
<1>6. \A l \in at : l <= k
  <2>. TAKE l \in at
  <2>1. Len(clips) - l \in down
    OBVIOUS
  <2>2. ~ (Len(clips) - l < Len(clips) - k)
    BY <1>4, <1>5, <2>1
  <2>3. l \in Nat /\ k \in Nat
    BY <1>1
  <2>. QED
    BY <1>1, <2>2, <2>3
<1>7. Newest(i) \in {clips[n] : n \in at}
  BY <1>6 DEF Newest
<1>. QED
  BY <1>7 DEF Stored, Range

-----------------------------------------------------------------------------
(* Types.                                                                  *)

LEMMA NoCallFields ==
    /\ NoCall \in Call
    /\ NoCall.op = "none" /\ NoCall.pc = "idle" /\ NoCall.tasks = {} /\ NoCall.rows = 0
  BY DEF NoCall, Call

LEMMA HookCallFields ==
    ASSUME NEW t \in Tasks
    PROVE  /\ HookCall(t) \in Call
           /\ HookCall(t).op = "hook" /\ HookCall(t).pc = "fetching"
           /\ HookCall(t).tasks = {t} /\ HookCall(t).rows = 0
  BY DEF HookCall, NoCall, Call

PollCall(todo, n, settled) ==
    [NoCall EXCEPT !.op = "poll", !.pc = "fetching", !.tasks = todo,
                   !.raw = pending, !.rows = n, !.settled = settled]

LEMMA PollCallFields ==
    ASSUME TypeOK, NEW T \in SUBSET Tasks, NEW n \in Nat, NEW S \in SUBSET Tasks
    PROVE  /\ PollCall(T, n, S) \in Call
           /\ PollCall(T, n, S).op = "poll" /\ PollCall(T, n, S).pc = "fetching"
           /\ PollCall(T, n, S).tasks = T /\ PollCall(T, n, S).rows = n
  BY DEF PollCall, NoCall, Call, TypeOK

LEMMA CallPut ==
    ASSUME TypeOK, NEW w \in Workers, NEW c \in Call, call' = [call EXCEPT ![w] = c]
    PROVE  /\ call' \in [Workers -> Call]
           /\ call'[w] = c
           /\ \A v \in Workers \ {w} : call'[v] = call[v]
  BY DEF TypeOK

LEMMA CallMoved ==
    ASSUME TypeOK, NEW w \in Workers,
           NEW p \in {"idle", "fetching", "inserted", "counted", "resuming"},
           NEW b \in BOOLEAN,
           call' \in {[call EXCEPT ![w].pc = p], [call EXCEPT ![w].pc = p, ![w].ready = b]}
    PROVE  /\ call' \in [Workers -> Call]
           /\ call'[w].pc = p /\ call'[w].op = call[w].op
           /\ call'[w].tasks = call[w].tasks /\ call'[w].rows = call[w].rows
           /\ \A v \in Workers \ {w} : call'[v] = call[v]
<1>. DEFINE c == call[w]
            d == [c EXCEPT !.pc = p]
            e == [c EXCEPT !.pc = p, !.ready = b]
<1>1. c \in Call
  BY DEF TypeOK
<1>2. /\ d \in Call /\ d.pc = p /\ d.op = c.op /\ d.tasks = c.tasks /\ d.rows = c.rows
      /\ e \in Call /\ e.pc = p /\ e.op = c.op /\ e.tasks = c.tasks /\ e.rows = c.rows
  BY <1>1 DEF Call
<1>3. call' = [call EXCEPT ![w] = d] \/ call' = [call EXCEPT ![w] = e]
  OBVIOUS
<1>. HIDE DEF d, e
<1>. QED
  BY <1>2, <1>3, CallPut

LEMMA ReadyField ==
    ASSUME TypeOK, NEW w \in Workers, NEW p, NEW b,
           call' = [call EXCEPT ![w].pc = p, ![w].ready = b]
    PROVE  call'[w].ready = b
  BY DEF TypeOK, Call

LEMMA JobsTyped ==
    ASSUME TypeOK, NEW t \in Tasks
    PROVE  /\ Retried(t) \in [Tasks -> Job]
           /\ Finished(t) \in [Tasks -> Job]
           /\ [hook EXCEPT ![t] = "open"] \in [Tasks -> Job]
           /\ [hook EXCEPT ![t] = "done"] \in [Tasks -> Job]
           /\ [tries EXCEPT ![t] = @ + 1] \in [Tasks -> Nat]
           /\ PollRetried \in Job
  BY DEF TypeOK, Retried, Finished, Job, PollRetried

LEMMA CompleteTyped ==
    ASSUME TypeOK, NEW n \in Nat
    PROVE  Expected \in Nat /\ Complete(n) \in BOOLEAN
<1>1. Expected \in Nat
  BY TasksAreFinite DEF TypeOK, Expected
<1>. QED
  BY <1>1 DEF Complete

\* The clips that a step adds.
LEMMA StoredByHook ==
    ASSUME TypeOK, NEW t \in Tasks, HookStores(t)
    PROVE  \E s \in Seq(Tasks) :
              /\ clips' = clips \o s
              /\ IsInjective(s) /\ Range(s) = {t} /\ Len(s) = 1
<1>. DEFINE s == <<t>>
<1>1. s \in Seq(Tasks) /\ IsInjective(s) /\ Range(s) = {t} /\ Len(s) = 1
  BY OneElement
<1>2. clips' = clips \o s
  BY AppendIsConcat DEF HookStores, TypeOK
<1>. QED
  BY <1>1, <1>2

LEMMA StoredByPoll ==
    ASSUME TypeOK, NEW w \in Workers, NEW F \in SUBSET Ready(w), PollStores(w, F)
    PROVE  \E s \in Seq(Tasks) :
              /\ clips' = clips \o s
              /\ IsInjective(s) /\ Range(s) \subseteq F /\ Len(s) = Cardinality(F)
<1>1. F \in SUBSET Tasks
  BY DEF Ready, Said, TypeOK, Call
<1>2. IsFiniteSet(F)
  BY <1>1, TasksAreFinite
<1>. QED
  BY <1>1, <1>2, SetToSeqFacts DEF PollStores

LEMMA ClipsTyped ==
    ASSUME TypeOK, NEW s \in Seq(Tasks), clips' = clips \o s
    PROVE  clips' \in Seq(Tasks)
  BY ConcatFacts DEF TypeOK

\* The manifest of a repair.
LEMMA MappingTyped ==
    ASSUME TypeOK, NEW missing \in SUBSET Indices
    PROVE  Mapping(missing) \subseteq Tasks
<1>1. Stored \subseteq Tasks
  BY ElementOfSeq, LenProperties DEF TypeOK, Stored, Range
<1>2. \A i \in Known : Newest(i) \in Tasks
  BY <1>1, NewestIsStored DEF TypeOK
<1>. QED
  BY <1>2 DEF Mapping, Resubmitted

-----------------------------------------------------------------------------
(* Every step keeps the types.                                             *)

LEMMA ProduceTyped ==
    ASSUME TypeOK, Produce
    PROVE  TypeOK'
<1>1. CASE SoraGenerate
  <2>1. NewRequest \in Nat
    BY DEF NewRequest, TypeOK
  <2>2. manifest' \subseteq Tasks /\ repairs' \in Nat /\ failures' \in Nat
    BY <1>1, <2>1 DEF SoraGenerate, StoresManifest, TypeOK
  <2>3. sora' \in [Tasks -> {"none", "working", "completed", "failed"}]
    BY <1>1 DEF SoraGenerate, StoresManifest, Submit, TypeOK
  <2>. QED
    BY <1>1, <2>2, <2>3 DEF SoraGenerate, StoresManifest, TypeOK, settings, jobs, hooks, polls
<1>2. CASE FakeGenerate
  BY <1>2 DEF FakeGenerate, FakeCompletes, FakeTasks, TypeOK, settings, jobs, hooks, polls, bounds
<1>3. CASE ProductionEnds
  <2>1. pending' \subseteq Tasks
    BY <1>3 DEF ProductionEnds, Answers
  <2>2. poll' \in Job
    BY <1>3 DEF ProductionEnds, Job, TypeOK
  <2>. QED
    BY <1>3, <2>1, <2>2 DEF ProductionEnds, TypeOK, Status, settings, hooks, bounds
<1>4. CASE ProductionFails
  BY <1>4 DEF ProductionFails, TypeOK, Status, settings, jobs, hooks, polls
<1>. QED
  BY <1>1, <1>2, <1>3, <1>4 DEF Produce

LEMMA SoraTyped ==
    ASSUME TypeOK, NEW t \in Tasks, SoraFinishes(t) \/ SoraWebhook(t)
    PROVE  TypeOK'
<1>1. CASE SoraFinishes(t)
  <2>1. sora' \in [Tasks -> {"none", "working", "completed", "failed"}]
    BY <1>1 DEF SoraFinishes, TypeOK
  <2>2. failures' \in Nat
    BY <1>1 DEF SoraFinishes, TypeOK
  <2>. QED
    BY <1>1, <2>1, <2>2 DEF SoraFinishes, TypeOK, settings, run, jobs, hooks, polls
<1>2. CASE SoraWebhook(t)
  BY <1>2, JobsTyped DEF SoraWebhook, TypeOK, settings, run, polls, bounds
<1>. QED
  BY <1>1, <1>2

LEMMA FetchTyped ==
    ASSUME TypeOK, NEW w \in Workers, NEW c \in Call, NEW T \in SUBSET Tasks, Fetch(w, c, T)
    PROVE  call' \in [Workers -> Call] /\ contested' \subseteq Tasks
<1>1. call' \in [Workers -> Call]
  BY CallPut DEF Fetch
<1>2. contested' \subseteq Tasks
  BY DEF Fetch, TypeOK
<1>. QED
  BY <1>1, <1>2

LEMMA HookBeginsTyped ==
    ASSUME TypeOK, NEW w \in Workers, NEW t \in Tasks, HookBegins(w, t) \/ RequestBegins(w, t)
    PROVE  TypeOK'
<1>1. HookFetches(w, t) \/ HookSkips(t) \/ HookFails(t)
  BY DEF HookBegins, RequestBegins
<1>2. call' \in [Workers -> Call] /\ contested' \subseteq Tasks
  <2>1. CASE HookFetches(w, t)
    BY <2>1, FetchTyped, HookCallFields DEF HookFetches
  <2>2. CASE HookSkips(t) \/ HookFails(t)
    BY <2>2 DEF HookSkips, HookFails, TypeOK
  <2>. QED
    BY <1>1, <2>1, <2>2
<1>3. hook' \in [Tasks -> Job] /\ status' \in Status
  BY <1>1, JobsTyped DEF HookFetches, HookSkips, HookFails, TypeOK, Status
<1>4. tries' \in [Tasks -> Nat]
  <2>1. tries' = [tries EXCEPT ![t] = @ + 1] \/ tries' = tries
    BY DEF HookBegins, RequestBegins
  <2>. QED
    BY <2>1, JobsTyped DEF TypeOK
<1>5. faults' \in Nat /\ failures' \in Nat
  <2>1. CASE HookBegins(w, t)
    BY <2>1 DEF HookBegins, MayRun, TypeOK
  <2>2. CASE RequestBegins(w, t)
    BY <2>2 DEF RequestBegins, TypeOK, bounds
  <2>. QED
    BY <2>1, <2>2
<1>. QED
  BY <1>2, <1>3, <1>4, <1>5 DEF HookBegins, RequestBegins, TypeOK, settings, polls, bounds

LEMMA HookStepTyped ==
    ASSUME TypeOK, NEW w \in Workers, NEW t \in Tasks, HookStep(w, t)
    PROVE  TypeOK'
<1>1. CASE HookGivesUp(w, t)
  <2>1. call' \in [Workers -> Call]
    BY <1>1, CallPut, NoCallFields DEF HookGivesUp, DownloadRaises, TranscodeFails, Hangup
  <2>2. hook' \in [Tasks -> Job] /\ status' \in Status /\ failures' \in Nat
    BY <1>1, JobsTyped DEF HookGivesUp, DownloadRaises, TranscodeFails, TypeOK, Status
  <2>. QED
    BY <1>1, <2>1, <2>2 DEF HookGivesUp, DownloadRaises, TranscodeFails, TypeOK, settings, polls
<1>2. CASE HookInserts(w, t)
  <2>1. call' \in [Workers -> Call]
    BY <1>2, CallMoved DEF HookInserts, Inserts
  <2>. QED
    BY <1>2, <2>1 DEF HookInserts, Inserts, TypeOK, settings, run, jobs, hooks, polls, bounds
<1>3. CASE HookCounts(w, t)
  <2>1. Complete(Len(clips) + 1) \in BOOLEAN
    BY CompleteTyped, LenProperties DEF TypeOK
  <2>2. call' \in [Workers -> Call]
    BY <1>3, <2>1, CallMoved DEF HookCounts
  <2>. QED
    BY <1>3, <2>2 DEF HookCounts, TypeOK, settings, run, jobs, hooks, polls, bounds
<1>4. CASE HookDeadlocks(w, t)
  <2>1. call' \in [Workers -> Call]
    BY <1>4, CallPut, NoCallFields DEF HookDeadlocks, Hangup
  <2>2. hook' \in [Tasks -> Job]
    BY <1>4, JobsTyped DEF HookDeadlocks
  <2>. QED
    BY <1>4, <2>1, <2>2 DEF HookDeadlocks, TypeOK, settings, run, polls, bounds
<1>5. CASE HookCommits(w, t)
  <2>1. call' \in [Workers -> Call]
    BY <1>5, CallPut, NoCallFields DEF HookCommits, Hangup
  <2>2. clips' \in Seq(Tasks)
    <3>1. CASE HookStores(t)
      BY <3>1, StoredByHook, ClipsTyped
    <3>2. CASE UNCHANGED clips
      BY <3>2 DEF TypeOK
    <3>. QED
      BY <1>5, <3>1, <3>2 DEF HookCommits
  <2>3. hook' \in [Tasks -> Job]
    BY <1>5, JobsTyped DEF HookCommits, HookStores
  <2>4. status' \in Status /\ resume' \in Job
    BY <1>5 DEF HookCommits, ClipsComplete, TypeOK, Status, Job
  <2>. QED
    BY <1>5, <2>1, <2>2, <2>3, <2>4 DEF HookCommits, TypeOK, settings, polls, bounds
<1>6. CASE RequestCommits(w, t)
  <2>1. call' \in [Workers -> Call]
    BY <1>6, CallMoved DEF RequestCommits
  <2>2. clips' \in Seq(Tasks)
    BY <1>6, StoredByHook, ClipsTyped DEF RequestCommits
  <2>3. hook' \in [Tasks -> Job]
    BY <1>6, JobsTyped DEF RequestCommits, HookStores
  <2>4. status' \in Status
    BY <1>6 DEF RequestCommits, ClipsComplete, TypeOK, Status
  <2>. QED
    BY <1>6, <2>1, <2>2, <2>3, <2>4 DEF RequestCommits, TypeOK, settings, polls, bounds
<1>. QED
  BY <1>1, <1>2, <1>3, <1>4, <1>5, <1>6 DEF HookStep

LEMMA PollBeginsTyped ==
    ASSUME TypeOK, NEW w \in Workers, PollBegins(w)
    PROVE  TypeOK'
<1>1. faults' \in Nat /\ pollTries' \in Nat
  BY DEF PollBegins, MayRun, TypeOK
<1>2. call' \in [Workers -> Call] /\ contested' \subseteq Tasks /\ poll' \in Job
  <2>1. CASE status = "awaiting_video_generation"
    <3>. DEFINE todo == (IF pending = {} THEN manifest ELSE pending) \ Stored
    <3>1. /\ Fetch(w, PollCall(todo, Len(clips), {t \in todo : sora[t] # "working"}), todo)
          /\ UNCHANGED poll
      BY <2>1 DEF PollBegins, PollCall
    <3>2. todo \in SUBSET Tasks
      BY DEF TypeOK
    <3>3. Len(clips) \in Nat
      BY LenProperties DEF TypeOK
    <3>4. PollCall(todo, Len(clips), {t \in todo : sora[t] # "working"}) \in Call
      BY <3>2, <3>3, PollCallFields
    <3>. QED
      BY <3>1, <3>2, <3>4, FetchTyped DEF TypeOK
  <2>2. CASE status # "awaiting_video_generation"
    BY <2>2 DEF PollBegins, TypeOK, Job
  <2>. QED
    BY <2>1, <2>2
<1>. QED
  BY <1>1, <1>2 DEF PollBegins, TypeOK, settings, run, hooks

LEMMA PollStepTyped ==
    ASSUME TypeOK, NEW w \in Workers, PollStep(w)
    PROVE  TypeOK'
<1>1. CASE PollInserts(w)
  <2>1. call' \in [Workers -> Call]
    BY <1>1, CallMoved DEF PollInserts, Inserts
  <2>. QED
    BY <1>1, <2>1 DEF PollInserts, Inserts, TypeOK, settings, run, jobs, hooks, polls, bounds
<1>2. CASE PollRaises(w)
  <2>1. call' \in [Workers -> Call]
    BY <1>2, CallPut, NoCallFields DEF PollRaises, Hangup
  <2>2. poll' \in Job /\ failures' \in Nat
    <3>1. PollRetried \in Job
      BY DEF PollRetried, Job
    <3>. QED
      BY <1>2, <3>1 DEF PollRaises, TypeOK
  <2>. QED
    BY <1>2, <2>1, <2>2 DEF PollRaises, TypeOK, settings, run, hooks
<1>3. CASE PollFails(w) \/ PollCompletes(w) \/ PollWaits(w)
  <2>1. PICK F \in SUBSET Ready(w) : PollStores(w, F)
    BY <1>3 DEF PollFails, PollCompletes, PollWaits
  <2>2. clips' \in Seq(Tasks)
    BY <2>1, StoredByPoll, ClipsTyped
  <2>3. call' \in [Workers -> Call] /\ pending' \subseteq Tasks
    <3>1. call[w].raw \subseteq Tasks
      BY DEF TypeOK, Call
    <3>. QED
      BY <2>1, <3>1, CallPut, NoCallFields DEF PollStores, Hangup
  <2>4. status' \in Status /\ poll' \in Job /\ resume' \in Job /\ failures' \in Nat
    <3>1. PollRetried \in Job
      BY DEF PollRetried, Job
    <3>. QED
      BY <1>3, <3>1 DEF PollFails, PollCompletes, PollWaits, TypeOK, Status, Job
  <2>. QED
    BY <2>1, <2>2, <2>3, <2>4 DEF PollStores, TypeOK, settings, hooks
<1>. QED
  BY <1>1, <1>2, <1>3 DEF PollStep

LEMMA ResumesTyped ==
    ASSUME TypeOK,
           ResumeVideos \/ ResumeGivesUp \/ LaterFails
             \/ \E w \in Workers : RequestResumes(w) \/ Crash(w)
    PROVE  TypeOK'
<1>1. CASE ResumeVideos
  BY <1>1 DEF ResumeVideos, ResumeAfterVideos, TypeOK, Status, Job, settings, hooks, polls,
     bounds
<1>2. CASE ResumeGivesUp
  BY <1>2 DEF ResumeGivesUp, FindsNoInterrupt, TypeOK, Job, settings, run, hooks, polls
<1>3. CASE LaterFails
  BY <1>3 DEF LaterFails, TypeOK, Status, settings, jobs, hooks, polls
<1>4. ASSUME NEW w \in Workers, RequestResumes(w)
      PROVE  TypeOK'
  <2>1. call' \in [Workers -> Call]
    BY <1>4, CallPut, NoCallFields DEF RequestResumes, Hangup
  <2>2. status' \in Status /\ thread' \in {"producing", "waiting", "past", "failed"}
        /\ failures' \in Nat
    BY <1>4 DEF RequestResumes, ResumeAfterVideos, FindsNoInterrupt, TypeOK, Status
  <2>. QED
    BY <1>4, <2>1, <2>2 DEF RequestResumes, TypeOK, settings, jobs, hooks, polls
<1>5. ASSUME NEW w \in Workers, Crash(w)
      PROVE  TypeOK'
  <2>1. call' \in [Workers -> Call]
    BY <1>5, CallPut, NoCallFields DEF Crash, Hangup
  <2>. QED
    BY <1>5, <2>1 DEF Crash, TypeOK, settings, run, jobs, hooks, polls
<1>. QED
  BY <1>1, <1>2, <1>3, <1>4, <1>5

LEMMA RepairTyped ==
    ASSUME TypeOK, NEW requested \in SUBSET Indices, NEW force \in Forces,
           Repair(requested, force)
    PROVE  TypeOK'
<1>. DEFINE missing == Missing(requested, force)
<1>1. missing \in SUBSET Indices
  BY DEF Missing
<1>2. Mapping(missing) \subseteq Tasks
  BY <1>1, MappingTyped
<1>3. \A T : Submit(T) => sora' \in [Tasks -> {"none", "working", "completed", "failed"}]
  BY DEF Submit, TypeOK
<1>4. sora' \in [Tasks -> {"none", "working", "completed", "failed"}]
  BY <1>3 DEF Repair
<1>5. RepairWrites(Mapping(missing)) \/ UNCHANGED run
  BY DEF Repair
<1>6. status' \in Status /\ manifest' \subseteq Tasks /\ pending' \subseteq Tasks
  BY <1>2, <1>5 DEF RepairWrites, run, TypeOK, Status
<1>7. repairs' \in Nat /\ failures' \in Nat
  BY DEF Repair, TypeOK, run
<1>. QED
  BY <1>4, <1>6, <1>7 DEF Repair, TypeOK, settings, jobs, hooks, polls

LEMMA NextTyped == TypeOK /\ [Next]_vars => TypeOK'
<1>. SUFFICES ASSUME TypeOK, [Next]_vars PROVE TypeOK'
  OBVIOUS
<1>1. CASE UNCHANGED vars
  BY <1>1 DEF vars, settings, run, jobs, hooks, polls, bounds, TypeOK
<1>2. CASE Next
  BY <1>2, ProduceTyped, SoraTyped, HookBeginsTyped, HookStepTyped, PollBeginsTyped,
     PollStepTyped, ResumesTyped, RepairTyped DEF Next, Begin, Work
<1>. QED
  BY <1>1, <1>2

-----------------------------------------------------------------------------
(* What the steps have in common, by what they do to calls and clips.      *)

\* w's call ends, or none does.
HangsUp == call' = call \/ \E w \in Workers : call' = [call EXCEPT ![w] = NoCall]

LEMMA ActiveFacts ==
    ASSUME TypeOK, NEW w \in Workers
    PROVE  Active(w) \/ Idle(w) \/ call[w].pc = "resuming"
  BY DEF TypeOK, Call, Active, Idle

\* Steps that leave the clips, the manifest and the tasks alone.
LEMMA HangupKeeps ==
    ASSUME TypeOK, TypeOK', ClipInv, HangsUp,
           UNCHANGED <<clips, manifest, repairs, contested>>,
           \A t \in Tasks : Asked(t)' <=> Asked(t),
           resume' = "absent" <=> resume = "absent",
           manifest = {} => thread' # "waiting" /\ poll' = "absent",
           \A t \in Tasks : hook'[t] # "absent" => manifest # {}
    PROVE  ClipInv'
<1>1. \A w \in Workers : call'[w] = call[w] \/ call'[w] = NoCall
  BY CallPut, NoCallFields DEF HangsUp
<1>2. CallsOK'
  <2>. SUFFICES ASSUME NEW w \in Workers
                PROVE  /\ Idle(w)' => call'[w] = NoCall
                       /\ ~Idle(w)' => call'[w].op # "none" /\ manifest # {}
                       /\ call'[w].op = "hook" =>
                             \E t \in Tasks : call'[w].tasks = {t} /\ Asked(t)
                       /\ call'[w].op = "poll" => call'[w].pc \in {"fetching", "inserted"}
                       /\ call'[w].rows <= Len(clips)
    BY DEF CallsOK
  <2>1. CASE call'[w] = call[w]
    BY <2>1 DEF ClipInv, CallsOK, Idle
  <2>2. CASE call'[w] = NoCall
    BY <2>2, NoCallFields, LenProperties DEF Idle, TypeOK
  <2>. QED
    BY <1>1, <2>1, <2>2
<1>3. LockOK'
  BY <1>1, NoCallFields DEF ClipInv, LockOK, Complete, Expected
<1>4. RacesOK'
  BY <1>1, NoCallFields DEF ClipInv, RacesOK, Active, Stored
<1>5. Resuming' => Resuming
  BY <1>1, NoCallFields DEF Resuming
<1>6. BegunOK'
  BY <1>5, ElementOfSeq, LenProperties DEF ClipInv, BegunOK, Stored, Range, TypeOK
<1>7. OneSubmission' /\ SecondClipNeedsRace'
  BY DEF ClipInv, OneSubmission, SecondClipNeedsRace
<1>8. EarlyResumeExplained'
  BY <1>5 DEF ClipInv, EarlyResumeExplained, AllStored, Stored
<1>. QED
  BY <1>2, <1>3, <1>4, <1>6, <1>7, <1>8 DEF ClipInv

\* A call begins to ingest tasks that are not stored.
LEMMA FetchKeeps ==
    ASSUME TypeOK, TypeOK', ClipInv,
           NEW w \in Workers, NEW c \in Call, Idle(w), Fetch(w, c, c.tasks),
           c.pc = "fetching", c.op \in {"hook", "poll"}, c.rows <= Len(clips),
           c.op = "hook" => \E t \in Tasks : c.tasks = {t} /\ Asked(t),
           c.tasks \cap Stored = {}, manifest # {},
           UNCHANGED <<clips, sora, manifest, repairs, resume>>
    PROVE  ClipInv'
<1>1. call'[w] = c /\ \A v \in Workers \ {w} : call'[v] = call[v]
  BY CallPut DEF Fetch
<1>2. CallsOK'
  BY <1>1 DEF ClipInv, CallsOK, Idle, Asked
<1>3. LockOK'
  BY <1>1 DEF ClipInv, LockOK, Complete, Expected
<1>4. RacesOK'
  <2>1. \A v \in Workers \ {w}, t \in Tasks :
            t \in call[v].tasks /\ t \in c.tasks => t \in contested'
    BY DEF Fetch, Fetching
  <2>2. contested \subseteq contested'
    BY DEF Fetch
  <2>. QED
    BY <1>1, <2>1, <2>2 DEF ClipInv, RacesOK, Active, Stored
<1>5. Resuming' => Resuming
  BY <1>1 DEF Resuming
<1>6. BegunOK'
  BY DEF ClipInv, BegunOK, Stored, Asked
<1>7. OneSubmission' /\ SecondClipNeedsRace' /\ EarlyResumeExplained'
  BY <1>5 DEF ClipInv, OneSubmission, SecondClipNeedsRace, EarlyResumeExplained, AllStored,
     Stored, Asked, Fetch
<1>. QED
  BY <1>2, <1>3, <1>4, <1>6, <1>7 DEF ClipInv

\* A call that has something inserts it; the others wait.
LEMMA InsertKeeps ==
    ASSUME TypeOK, TypeOK', ClipInv, NEW w \in Workers, call[w].pc = "fetching", RowFree,
           call' = [call EXCEPT ![w].pc = "inserted"],
           UNCHANGED <<clips, sora, manifest, repairs, contested, resume, thread, poll, hook>>
    PROVE  ClipInv'
<1>1. /\ call'[w].pc = "inserted" /\ call'[w].op = call[w].op
      /\ call'[w].tasks = call[w].tasks /\ call'[w].rows = call[w].rows
      /\ \A v \in Workers \ {w} : call'[v] = call[v]
  BY CallMoved DEF TypeOK
<1>2. CallsOK'
  BY <1>1 DEF ClipInv, CallsOK, Idle, Asked
<1>3. LockOK'
  BY <1>1 DEF LockOK, RowFree
<1>4. RacesOK'
  BY <1>1 DEF ClipInv, RacesOK, Active, Stored
<1>5. Resuming' => Resuming
  BY <1>1 DEF Resuming
<1>6. BegunOK'
  BY <1>5 DEF ClipInv, BegunOK, Stored, Asked
<1>7. OneSubmission' /\ SecondClipNeedsRace' /\ EarlyResumeExplained'
  BY <1>5 DEF ClipInv, OneSubmission, SecondClipNeedsRace, EarlyResumeExplained, AllStored,
     Stored, Asked
<1>. QED
  BY <1>2, <1>3, <1>4, <1>6, <1>7 DEF ClipInv

\* A call counts under the lock: nobody else has inserted, and so nobody has counted.
LEMMA CountKeeps ==
    ASSUME TypeOK, TypeOK', ClipInv, NEW w \in Workers, NEW t \in Tasks, HookCounts(w, t)
    PROVE  ClipInv'
<1>0. /\ call[w].op = "hook" /\ call[w].pc = "inserted"
      /\ \A v \in Workers \ {w} : call[v].pc # "inserted"
      /\ UNCHANGED <<clips, sora, manifest, repairs, contested, resume, thread, poll, hook>>
  BY DEF HookCounts, InHook, MayCount, UnsharedBut, run, jobs, hooks, polls
<1>. DEFINE b == Complete(Len(clips) + 1)
<1>b. b \in BOOLEAN
  BY CompleteTyped, LenProperties DEF TypeOK
<1>1. /\ call'[w].pc = "counted" /\ call'[w].op = call[w].op /\ call'[w].ready = b
      /\ call'[w].tasks = call[w].tasks /\ call'[w].rows = call[w].rows
      /\ \A v \in Workers \ {w} : call'[v] = call[v]
  <2>1. call' = [call EXCEPT ![w].pc = "counted", ![w].ready = b]
    BY DEF HookCounts
  <2>. HIDE DEF b
  <2>. QED
    BY <1>b, <2>1, CallMoved, ReadyField
<1>2. CallsOK'
  BY <1>0, <1>1 DEF ClipInv, CallsOK, Idle, Asked
<1>3. LockOK'
  <2>1. \A v \in Workers \ {w} : call[v].pc # "counted"
    BY <1>0 DEF ClipInv, LockOK
  <2>2. Complete(Len(clips) + 1)' <=> b
    BY <1>0 DEF Complete, Expected
  <2>. HIDE DEF b
  <2>3. ASSUME NEW v \in Workers, call'[v].pc = "counted"
        PROVE  /\ \A u \in Workers \ {v} : call'[u].pc \notin {"inserted", "counted"}
               /\ call'[v].ready <=> b
    BY <1>0, <1>1, <2>1, <2>3
  <2>. QED
    BY <2>2, <2>3 DEF LockOK
<1>4. RacesOK'
  BY <1>0, <1>1 DEF ClipInv, RacesOK, Active, Stored
<1>5. Resuming' => Resuming
  BY <1>0, <1>1 DEF Resuming
<1>6. BegunOK'
  BY <1>0, <1>5 DEF ClipInv, BegunOK, Stored, Asked
<1>7. OneSubmission' /\ SecondClipNeedsRace' /\ EarlyResumeExplained'
  BY <1>0, <1>5 DEF ClipInv, OneSubmission, SecondClipNeedsRace, EarlyResumeExplained,
     AllStored, Stored, Asked
<1>. QED
  BY <1>2, <1>3, <1>4, <1>6, <1>7 DEF ClipInv

\* A call stores tasks of its own and is done with them.  If somebody is told to
\* resume who was not, there are as many clips as the manifest has tasks.
LEMMA StoreKeeps ==
    ASSUME TypeOK, TypeOK', ClipInv, NEW w \in Workers, Active(w),
           \A v \in Workers \ {w} : call[v].pc # "counted",
           NEW s \in Seq(Tasks), clips' = clips \o s, IsInjective(s),
           Range(s) \subseteq call[w].tasks, \A t \in Range(s) : Asked(t),
           \/ call' = [call EXCEPT ![w] = NoCall]
           \/ call' = [call EXCEPT ![w].pc = "resuming"] /\ call[w].op = "hook",
           UNCHANGED <<sora, manifest, repairs, contested, thread>>,
           Resuming' => Resuming \/ Complete(Len(clips'))
    PROVE  ClipInv'
<1>1. /\ call'[w].pc \in {"idle", "resuming"}
      /\ \/ call'[w] = NoCall
         \/ /\ call'[w].pc = "resuming" /\ call'[w].op = "hook"
            /\ call'[w].tasks = call[w].tasks /\ call'[w].rows = call[w].rows
            /\ call[w].op = "hook"
      /\ \A v \in Workers \ {w} : call'[v] = call[v]
  BY CallPut, CallMoved, NoCallFields
<1>2. /\ clips \in Seq(Tasks) /\ clips' \in Seq(Tasks)
      /\ Len(clips) \in Nat /\ Len(s) \in Nat /\ Len(clips') = Len(clips) + Len(s)
      /\ Stored' = Stored \cup Range(s)
  BY ConcatFacts, LenProperties DEF TypeOK, Stored
<1>3. manifest # {}
  BY DEF Active, Idle, ClipInv, CallsOK
<1>4. CallsOK'
  <2>1. \A v \in Workers : call[v].rows \in Nat
    BY DEF TypeOK, Call
  <2>2. \A v \in Workers : call[v].rows <= Len(clips')
    BY <1>2, <2>1 DEF ClipInv, CallsOK
  <2>. SUFFICES ASSUME NEW v \in Workers
                PROVE  /\ Idle(v)' => call'[v] = NoCall
                       /\ ~Idle(v)' => call'[v].op # "none" /\ manifest # {}
                       /\ call'[v].op = "hook" =>
                             \E t \in Tasks : call'[v].tasks = {t} /\ Asked(t)
                       /\ call'[v].op = "poll" => call'[v].pc \in {"fetching", "inserted"}
                       /\ call'[v].rows <= Len(clips')
    BY DEF CallsOK, Asked
  <2>3. CASE call'[v] = call[v]
    BY <2>2, <2>3 DEF ClipInv, CallsOK, Idle
  <2>4. CASE call'[v] = NoCall
    BY <1>2, <2>4, NoCallFields DEF Idle
  <2>5. CASE /\ call'[v].pc = "resuming" /\ call'[v].op = "hook" /\ call[v].op = "hook"
             /\ call'[v].tasks = call[v].tasks /\ call'[v].rows = call[v].rows
    BY <1>3, <2>2, <2>5 DEF ClipInv, CallsOK, Idle
  <2>. QED
    BY <1>1, <2>3, <2>4, <2>5
<1>5. LockOK'
  BY <1>1 DEF LockOK
<1>6. RacesOK'
  <2>1. \A v \in Workers \ {w}, t \in Tasks :
            t \in call[v].tasks /\ t \in Range(s) => t \in contested
    BY DEF ClipInv, RacesOK
  <2>. QED
    BY <1>1, <1>2, <2>1, NoCallFields DEF ClipInv, RacesOK, Active
<1>7. BegunOK'
  BY <1>2, <1>3 DEF ClipInv, BegunOK, Asked
<1>8. OneSubmission'
  BY DEF ClipInv, OneSubmission, Asked
<1>9. SecondClipNeedsRace'
  <2>1. \A t \in Tasks : t \in Stored /\ t \in Range(s) => t \in contested
    BY DEF ClipInv, RacesOK
  <2>2. Range(clips) \cap Range(s) \subseteq contested
    <3>1. call[w].tasks \subseteq Tasks
      BY DEF TypeOK, Call
    <3>. QED
      BY <2>1, <3>1 DEF Stored
  <2>3. RepeatsIn(clips, contested)
    BY DEF ClipInv, SecondClipNeedsRace, RepeatsIn
  <2>4. RepeatsIn(clips', contested)
    BY <1>2, <2>2, <2>3, ConcatRepeats
  <2>. QED
    BY <2>4 DEF SecondClipNeedsRace, RepeatsIn
<1>10. EarlyResumeExplained'
  <2>. SUFFICES ASSUME Resuming', contested = {}, repairs = 0
                PROVE  AllStored'
    BY <1>3 DEF EarlyResumeExplained, TypeOK
  <2>1. CASE Resuming
    BY <1>2, <1>3, <2>1 DEF ClipInv, EarlyResumeExplained, AllStored, TypeOK
  <2>2. CASE Complete(Len(clips'))
    <3>1. IsInjective(clips')
      BY <1>9 DEF SecondClipNeedsRace, IsInjective
    <3>2. \A t \in Stored' : t \in Tasks /\ Asked(t)
      BY <1>2, <1>7, LenProperties DEF BegunOK, Stored, Range, Asked
    <3>3. Range(clips') \subseteq manifest
      BY <3>2 DEF ClipInv, OneSubmission, Stored
    <3>4. Len(clips') >= Cardinality(manifest)
      BY <2>2 DEF Complete, Expected
    <3>5. manifest \in SUBSET Tasks
      BY DEF TypeOK
    <3>6. manifest \subseteq Range(clips')
      BY <1>2, <3>1, <3>3, <3>4, <3>5, EnoughAreAll
    <3>. QED
      BY <1>3, <3>6 DEF AllStored, Stored
  <2>. QED
    BY <2>1, <2>2
<1>. QED
  BY <1>4, <1>5, <1>6, <1>7, <1>8, <1>9, <1>10 DEF ClipInv

\* Tasks are submitted for a manifest while nobody counts: the first submission of
\* all, or a later one.
LEMMA SubmitKeeps ==
    ASSUME TypeOK, TypeOK', ClipInv, RowFree,
           UNCHANGED <<clips, call, contested, resume, thread, poll, hook>>,
           manifest' # {}, repairs <= repairs',
           \A t \in Tasks : Asked(t) => Asked(t)',
           \A t \in Tasks : Asked(t)' => Asked(t) \/ t.gen <= repairs',
           repairs' = 0 => manifest = {} /\ \A t \in Tasks : Asked(t)' => t \in manifest'
    PROVE  ClipInv'
<1>1. CallsOK'
  BY DEF ClipInv, CallsOK, Idle
<1>2. LockOK'
  BY DEF RowFree, LockOK
<1>3. RacesOK'
  BY DEF ClipInv, RacesOK, Active, Stored
<1>4. BegunOK'
  <2>1. \A t \in Tasks : t.gen \in Nat
    BY DEF Tasks
  <2>2. \A t \in Tasks : Asked(t)' => t.gen <= repairs'
    BY <2>1 DEF ClipInv, BegunOK, TypeOK
  <2>3. \A t \in Stored : t \in Tasks
    BY LenProperties DEF TypeOK, Stored, Range
  <2>4. \A t \in Stored' : Asked(t)'
    BY <2>3 DEF ClipInv, BegunOK, Stored
  <2>. QED
    BY <2>2, <2>4 DEF BegunOK
<1>5. OneSubmission' /\ SecondClipNeedsRace'
  BY DEF ClipInv, OneSubmission, SecondClipNeedsRace
<1>6. EarlyResumeExplained'
  <2>1. repairs' = 0 => ~Resuming
    BY DEF ClipInv, BegunOK
  <2>2. Resuming' = Resuming
    BY DEF Resuming
  <2>. QED
    BY <2>1, <2>2 DEF EarlyResumeExplained, TypeOK
<1>. QED
  BY <1>1, <1>2, <1>3, <1>4, <1>5, <1>6 DEF ClipInv

-----------------------------------------------------------------------------
(* Every step keeps the invariant.                                         *)

LEMMA Begun ==
    ASSUME TypeOK, ClipInv
    PROVE  /\ \A w \in Workers : ~Idle(w) => manifest # {}
           /\ \A t \in Tasks : hook[t] # "absent" => manifest # {}
           /\ \A t \in Tasks : Asked(t) => manifest # {}
           /\ poll # "absent" \/ resume # "absent" => manifest # {}
  BY DEF ClipInv, CallsOK, BegunOK, Resuming

\* A step that does not do more than end a call, once there is a manifest.
LEMMA LaterKeeps ==
    ASSUME TypeOK, TypeOK', ClipInv, HangsUp, manifest # {},
           UNCHANGED <<clips, sora, manifest, repairs, contested>>,
           resume' = "absent" <=> resume = "absent"
    PROVE  ClipInv'
  BY HangupKeeps DEF Asked

LEMMA ProduceKeeps ==
    ASSUME TypeOK, TypeOK', ClipInv, Produce
    PROVE  ClipInv'
<1>1. CASE SoraGenerate
  <2>1. PICK k \in 1 .. N : manifest' = {t \in Tasks : t.gen = NewRequest /\ t.index < k}
    BY <1>1 DEF SoraGenerate, StoresManifest
  <2>2. NewRequest \in 0 .. MaxRepairs /\ repairs <= NewRequest
        /\ (NewRequest = 0 => manifest = {}) /\ (manifest # {} => NewRequest > repairs)
    BY <1>1 DEF SoraGenerate, StoresManifest, NewRequest, ClipInv, BegunOK, TypeOK
  <2>3. manifest' # {}
    <3>. DEFINE t == [index |-> 0, gen |-> NewRequest]
    <3>1. t \in Tasks /\ t.gen = NewRequest /\ t.index < k
      BY <2>1, <2>2, ClipsAssumption DEF Tasks, Indices
    <3>. HIDE DEF t
    <3>. QED
      BY <2>1, <3>1
  <2>4. sora' = [t \in Tasks |-> IF t \in manifest' THEN "working" ELSE sora[t]]
    BY <1>1 DEF SoraGenerate, StoresManifest, Submit
  <2>5. \A t \in Tasks : Asked(t)' <=> Asked(t) \/ t \in manifest'
    BY <2>4 DEF Asked
  <2>6. \A t \in manifest' : t.gen = NewRequest
    BY <2>1
  <2>7. repairs' = NewRequest
    BY <1>1 DEF SoraGenerate, StoresManifest
  <2>8. \A t \in Tasks : Asked(t)' => Asked(t) \/ t.gen <= repairs'
    BY <2>2, <2>5, <2>6, <2>7
  <2>9. repairs' = 0 => manifest = {} /\ \A t \in Tasks : Asked(t)' => t \in manifest'
    BY <2>2, <2>5, <2>7 DEF ClipInv, BegunOK
  <2>10. RowFree /\ UNCHANGED <<clips, call, contested, resume, thread, poll, hook>>
    BY <1>1 DEF SoraGenerate, StoresManifest, jobs, hooks, polls
  <2>. QED
    BY <2>2, <2>3, <2>5, <2>7, <2>8, <2>9, <2>10, SubmitKeeps
<1>2. CASE FakeGenerate
  <2>1. manifest = {} /\ manifest' = FakeTasks /\ repairs = 0 /\ repairs' = 0
    BY <1>2 DEF FakeGenerate, FakeCompletes, ClipInv, BegunOK
  <2>2. \A t \in Tasks : Asked(t)' <=> Asked(t) \/ t \in FakeTasks
    BY <1>2 DEF FakeGenerate, FakeCompletes, Asked
  <2>3. \A t \in Tasks : ~Asked(t)
    BY <2>1 DEF ClipInv, BegunOK
  <2>4. manifest' # {}
    <3>. DEFINE t == [index |-> 0, gen |-> 0]
    <3>1. t \in Tasks /\ t.gen = 0
      BY ClipsAssumption DEF Tasks, Indices
    <3>. HIDE DEF t
    <3>. QED
      BY <2>1, <3>1 DEF FakeTasks
  <2>5. \A t \in FakeTasks : t.gen = 0
    BY DEF FakeTasks
  <2>6. RowFree /\ UNCHANGED <<clips, call, contested, resume, thread, poll, hook>>
    BY <1>2 DEF FakeGenerate, FakeCompletes, jobs, hooks, polls
  <2>. QED
    BY <2>1, <2>2, <2>3, <2>4, <2>5, <2>6, SubmitKeeps
<1>3. CASE ProductionEnds
  <2>1. /\ manifest # {} /\ HangsUp
        /\ UNCHANGED <<clips, sora, manifest, repairs, contested, resume>>
    BY <1>3 DEF ProductionEnds, HangsUp
  <2>. QED
    BY <2>1, LaterKeeps
<1>4. CASE ProductionFails
  <2>1. /\ HangsUp /\ thread' # "waiting"
        /\ UNCHANGED <<clips, sora, manifest, repairs, contested, resume, poll, hook>>
    BY <1>4 DEF ProductionFails, HangsUp, jobs, hooks, polls
  <2>. QED
    BY <2>1, HangupKeeps DEF Asked, ClipInv, BegunOK
<1>. QED
  BY <1>1, <1>2, <1>3, <1>4 DEF Produce

LEMMA SoraKeeps ==
    ASSUME TypeOK, TypeOK', ClipInv, NEW t \in Tasks, SoraFinishes(t) \/ SoraWebhook(t)
    PROVE  ClipInv'
<1>1. CASE SoraFinishes(t)
  <2>1. /\ sora[t] = "working"
        /\ sora' \in {[sora EXCEPT ![t] = "completed"], [sora EXCEPT ![t] = "failed"]}
        /\ UNCHANGED <<clips, manifest, repairs, contested, resume, thread, poll, hook, call>>
    BY <1>1 DEF SoraFinishes, run, jobs, hooks, polls
  <2>2. \A u \in Tasks : Asked(u)' <=> Asked(u)
    BY <2>1 DEF Asked, TypeOK
  <2>3. manifest # {}
    BY <2>1, Begun DEF Asked
  <2>4. HangsUp
    BY <2>1 DEF HangsUp
  <2>. QED
    BY <2>1, <2>2, <2>3, <2>4, HangupKeeps
<1>2. CASE SoraWebhook(t)
  <2>1. /\ manifest # {} /\ HangsUp
        /\ UNCHANGED <<clips, sora, manifest, repairs, contested, resume>>
    BY <1>2 DEF SoraWebhook, Delivered, InManifest, HangsUp, run
  <2>. QED
    BY <2>1, LaterKeeps
<1>. QED
  BY <1>1, <1>2

LEMMA HookBeginsKeeps ==
    ASSUME TypeOK, TypeOK', ClipInv, NEW w \in Workers, NEW t \in Tasks,
           HookBegins(w, t) \/ RequestBegins(w, t)
    PROVE  ClipInv'
<1>1. manifest # {}
  BY Begun DEF HookBegins, RequestBegins, Delivered, InManifest
<1>2. Idle(w) /\ UNCHANGED <<clips, sora, manifest, repairs, resume>>
  BY DEF HookBegins, RequestBegins
<1>3. CASE HookFetches(w, t)
  <2>. DEFINE c == HookCall(t)
  <2>1. /\ c \in Call /\ c.op = "hook" /\ c.pc = "fetching" /\ c.tasks = {t} /\ c.rows = 0
    BY HookCallFields
  <2>2. Fetch(w, c, {t}) /\ Asked(t) /\ t \notin Stored
    BY <1>3 DEF HookFetches, Asked
  <2>3. Len(clips) \in Nat
    BY LenProperties DEF TypeOK
  <2>. HIDE DEF c
  <2>4. /\ c.tasks \cap Stored = {} /\ c.rows <= Len(clips) /\ Fetch(w, c, c.tasks)
        /\ \E u \in Tasks : c.tasks = {u} /\ Asked(u)
    BY <2>1, <2>2, <2>3
  <2>. QED
    BY <1>1, <1>2, <2>1, <2>4, FetchKeeps
<1>4. CASE HookSkips(t) \/ HookFails(t)
  <2>1. HangsUp /\ UNCHANGED contested
    BY <1>4 DEF HookSkips, HookFails, HangsUp
  <2>. QED
    BY <1>1, <1>2, <2>1, LaterKeeps
<1>. QED
  BY <1>3, <1>4 DEF HookBegins, RequestBegins

LEMMA HookStepKeeps ==
    ASSUME TypeOK, TypeOK', ClipInv, NEW w \in Workers, NEW t \in Tasks, HookStep(w, t)
    PROVE  ClipInv'
<1>1. ~Idle(w) /\ manifest # {} /\ call[w].op = "hook" /\ call[w].tasks = {t}
  <2>1. call[w].pc \in {"fetching", "inserted", "counted"} /\ call[w].op = "hook"
        /\ call[w].tasks = {t}
    BY DEF HookStep, HookGivesUp, DownloadRaises, TranscodeFails, HookInserts, Inserts, HookCounts, HookDeadlocks, HookCommits,
           RequestCommits, InHook
  <2>. QED
    BY <2>1, Begun DEF Idle
<1>2. CASE HookGivesUp(w, t)
  <2>1. HangsUp /\ UNCHANGED <<clips, sora, manifest, repairs, contested, resume>>
    BY <1>2 DEF HookGivesUp, DownloadRaises, TranscodeFails, HangsUp, Hangup
  <2>. QED
    BY <1>1, <2>1, LaterKeeps
<1>3. CASE HookInserts(w, t)
  BY <1>3, InsertKeeps DEF HookInserts, Inserts, InHook, run, jobs, hooks, polls
<1>4. CASE HookCounts(w, t)
  BY <1>4, CountKeeps
<1>5. CASE HookDeadlocks(w, t)
  <2>1. HangsUp /\ UNCHANGED <<clips, sora, manifest, repairs, contested, resume>>
    BY <1>5 DEF HookDeadlocks, HangsUp, Hangup, run
  <2>. QED
    BY <1>1, <2>1, LaterKeeps
<1>6. CASE HookCommits(w, t) \/ RequestCommits(w, t)
  <2>1. /\ call[w].pc = "counted"
        /\ UNCHANGED <<sora, manifest, repairs, contested, thread>>
        /\ \/ call' = [call EXCEPT ![w] = NoCall]
           \/ call' = [call EXCEPT ![w].pc = "resuming"]
    BY <1>6 DEF HookCommits, RequestCommits, InHook, Hangup
  <2>2. /\ Active(w) /\ Asked(t)
        /\ \A v \in Workers \ {w} : call[v].pc # "counted"
        /\ call[w].ready <=> Complete(Len(clips) + 1)
    BY <1>1, <2>1 DEF Active, ClipInv, CallsOK, LockOK
  <2>3. CASE HookStores(t)
    <3>1. PICK s \in Seq(Tasks) : /\ clips' = clips \o s
                                  /\ IsInjective(s) /\ Range(s) = {t} /\ Len(s) = 1
      BY <2>3, StoredByHook
    <3>2. Len(clips') = Len(clips) + 1
      BY <3>1, ConcatFacts DEF TypeOK
    <3>3. Resuming' => Resuming \/ Complete(Len(clips'))
      <4>1. CASE call[w].ready
        BY <2>2, <3>2, <4>1 DEF Complete, Expected
      <4>2. CASE ~call[w].ready
        <5>1. UNCHANGED resume /\ call' = [call EXCEPT ![w] = NoCall]
          BY <1>6, <4>2 DEF HookCommits, RequestCommits, Hangup
        <5>. QED
          BY <5>1, CallPut, NoCallFields DEF Resuming
      <4>. QED
        BY <4>1, <4>2
    <3>. QED
      BY <1>1, <2>1, <2>2, <3>1, <3>3, StoreKeeps
  <2>4. CASE ~HookStores(t)
    <3>1. /\ HangsUp /\ UNCHANGED <<clips, sora, manifest, repairs, contested, resume>>
      BY <1>6, <2>4 DEF HookCommits, RequestCommits, HangsUp, Hangup
    <3>. QED
      BY <1>1, <3>1, LaterKeeps
  <2>. QED
    BY <2>3, <2>4
<1>. QED
  BY <1>2, <1>3, <1>4, <1>5, <1>6 DEF HookStep

LEMMA PollBeginsKeeps ==
    ASSUME TypeOK, TypeOK', ClipInv, NEW w \in Workers, PollBegins(w)
    PROVE  ClipInv'
<1>1. /\ manifest # {} /\ Idle(w)
      /\ UNCHANGED <<clips, sora, manifest, repairs, resume>>
  BY Begun DEF PollBegins, run
<1>2. CASE status = "awaiting_video_generation"
  <2>. DEFINE todo == (IF pending = {} THEN manifest ELSE pending) \ Stored
              c    == PollCall(todo, Len(clips), {t \in todo : sora[t] # "working"})
  <2>1. Fetch(w, c, todo)
    BY <1>2 DEF PollBegins, PollCall
  <2>2. todo \in SUBSET Tasks /\ todo \cap Stored = {}
    BY DEF TypeOK
  <2>3. Len(clips) \in Nat
    BY LenProperties DEF TypeOK
  <2>4. /\ c \in Call /\ c.op = "poll" /\ c.pc = "fetching"
        /\ c.tasks = todo /\ c.rows = Len(clips)
    BY <2>2, <2>3, PollCallFields
  <2>. HIDE DEF c, todo
  <2>5. Fetch(w, c, c.tasks) /\ c.tasks \cap Stored = {} /\ c.rows <= Len(clips)
    BY <2>1, <2>2, <2>3, <2>4
  <2>. QED
    BY <1>1, <2>4, <2>5, FetchKeeps
<1>3. CASE status # "awaiting_video_generation"
  <2>1. HangsUp /\ UNCHANGED contested
    BY <1>3 DEF PollBegins, HangsUp
  <2>. QED
    BY <1>1, <2>1, LaterKeeps
<1>. QED
  BY <1>2, <1>3

LEMMA PollStepKeeps ==
    ASSUME TypeOK, TypeOK', ClipInv, NEW w \in Workers, PollStep(w)
    PROVE  ClipInv'
<1>1. call[w].op = "poll" /\ Active(w) /\ manifest # {}
  <2>1. call[w].op = "poll"
    BY DEF PollStep, PollInserts, Inserts, PollFails, PollCompletes, PollWaits, PollRaises, Looped,
           InPoll
  <2>. QED
    BY <2>1, Begun DEF ClipInv, CallsOK, Active, Idle
<1>2. CASE PollInserts(w)
  BY <1>2, InsertKeeps DEF PollInserts, Inserts, run, jobs, hooks, polls
<1>3. CASE PollRaises(w)
  <2>1. HangsUp /\ UNCHANGED <<clips, sora, manifest, repairs, contested, resume>>
    BY <1>3 DEF PollRaises, HangsUp, Hangup, run
  <2>. QED
    BY <1>1, <2>1, LaterKeeps
<1>4. CASE PollFails(w) \/ PollCompletes(w) \/ PollWaits(w)
  <2>1. PICK F \in SUBSET Ready(w) :
           PollStores(w, F) /\ (Enough(w, F) \/ UNCHANGED resume)
    BY <1>4 DEF PollFails, PollCompletes, PollWaits
  <2>2. PICK s \in Seq(Tasks) : /\ clips' = clips \o s
                                /\ IsInjective(s) /\ Range(s) \subseteq F
                                /\ Len(s) = Cardinality(F)
    BY <2>1, StoredByPoll
  <2>3. \A t \in Range(s) : t \in call[w].tasks /\ Asked(t)
    BY <2>2 DEF Ready, Said, Asked
  <2>4. /\ call' = [call EXCEPT ![w] = NoCall]
        /\ \A v \in Workers \ {w} : call[v].pc # "counted"
        /\ UNCHANGED <<sora, manifest, repairs, contested, thread>>
    BY <2>1 DEF PollStores, Hangup, RowFree
  <2>5. Resuming' => Resuming \/ Complete(Len(clips'))
    <3>1. CASE UNCHANGED resume
      BY <2>4, <3>1, CallPut, NoCallFields DEF Resuming
    <3>2. CASE Enough(w, F)
      <4>1. Len(clips') = Len(clips) + Cardinality(F) /\ Len(clips) \in Nat /\ Len(s) \in Nat
        BY <2>2, ConcatFacts, LenProperties DEF TypeOK
      <4>2. call[w].rows <= Len(clips) /\ call[w].rows \in Nat
        BY DEF ClipInv, CallsOK, TypeOK, Call
      <4>3. Expected \in Nat
        BY CompleteTyped
      <4>4. UNCHANGED Expected
        BY <2>4 DEF Expected
      <4>5. call[w].rows + Cardinality(F) >= Expected
        BY <3>2 DEF Enough, Complete
      <4>6. Len(clips') >= Expected
        BY <2>2, <4>1, <4>2, <4>3, <4>5
      <4>. QED
        BY <4>6 DEF Complete
    <3>. QED
      BY <2>1, <3>1, <3>2
  <2>. QED
    BY <1>1, <2>2, <2>3, <2>4, <2>5, StoreKeeps
<1>. QED
  BY <1>2, <1>3, <1>4 DEF PollStep

LEMMA ResumesKeeps ==
    ASSUME TypeOK, TypeOK', ClipInv,
           ResumeVideos \/ ResumeGivesUp \/ LaterFails
             \/ \E w \in Workers : RequestResumes(w) \/ Crash(w)
    PROVE  ClipInv'
<1>1. CASE ResumeVideos \/ ResumeGivesUp
  <2>1. /\ resume # "absent" /\ resume' # "absent" /\ HangsUp
        /\ UNCHANGED <<clips, sora, manifest, repairs, contested>>
    BY <1>1 DEF ResumeVideos, ResumeGivesUp, HangsUp, run
  <2>. QED
    BY <2>1, Begun, LaterKeeps
<1>2. CASE LaterFails
  <2>1. /\ HangsUp
        /\ UNCHANGED <<clips, sora, manifest, repairs, contested, resume, poll, hook, thread>>
    BY <1>2 DEF LaterFails, HangsUp, jobs, hooks, polls
  <2>. QED
    BY <2>1, HangupKeeps DEF Asked, ClipInv, BegunOK
<1>3. ASSUME NEW w \in Workers, RequestResumes(w) \/ Crash(w)
      PROVE  ClipInv'
  <2>1. /\ ~Idle(w) /\ HangsUp
        /\ UNCHANGED <<clips, sora, manifest, repairs, contested, resume>>
    BY <1>3 DEF RequestResumes, Crash, HangsUp, Hangup, Idle, run, jobs
  <2>. QED
    BY <2>1, Begun, LaterKeeps
<1>. QED
  BY <1>1, <1>2, <1>3

LEMMA RepairKeeps ==
    ASSUME TypeOK, TypeOK', ClipInv, NEW requested \in SUBSET Indices, NEW force \in Forces,
           Repair(requested, force)
    PROVE  ClipInv'
<1>. DEFINE missing == Missing(requested, force)
<1>1. /\ RowFree /\ manifest # {} /\ missing # {} /\ repairs < MaxRepairs
      /\ repairs' = repairs + 1
      /\ UNCHANGED <<clips, call, contested, resume, thread, poll, hook>>
  BY DEF Repair, jobs, hooks, polls
<1>2. PICK T \in SUBSET Resubmitted(missing) : Submit(T)
  BY DEF Repair
<1>3. \A t \in Tasks : Asked(t)' <=> Asked(t) \/ t \in T
  BY <1>2 DEF Submit, Asked
<1>4. \A t \in T : t.gen = repairs'
  BY <1>1 DEF Resubmitted
<1>5. \A t \in Tasks : Asked(t)' => Asked(t) \/ t.gen <= repairs'
  BY <1>1, <1>3, <1>4 DEF TypeOK
<1>6. manifest' # {}
  <2>1. CASE UNCHANGED run
    BY <1>1, <2>1 DEF run
  <2>2. CASE RepairWrites(Mapping(missing))
    <3>1. PICK i \in missing : TRUE
      BY <1>1
    <3>. DEFINE t == [index |-> i, gen |-> repairs + 1]
    <3>2. t \in Tasks /\ t.gen = repairs + 1 /\ t.index \in missing
      BY <1>1, <3>1, ClipsAssumption DEF Tasks, Missing, TypeOK
    <3>. HIDE DEF t
    <3>3. t \in Mapping(missing)
      BY <3>2 DEF Mapping, Resubmitted
    <3>. QED
      BY <2>2, <3>3 DEF RepairWrites
  <2>. QED
    BY <2>1, <2>2 DEF Repair, run
<1>7. repairs <= repairs' /\ repairs' # 0
  BY <1>1 DEF TypeOK
<1>. QED
  BY <1>1, <1>3, <1>5, <1>6, <1>7, SubmitKeeps

LEMMA StepsKeep == TypeOK /\ TypeOK' /\ ClipInv /\ [Next]_vars => ClipInv'
<1>. SUFFICES ASSUME TypeOK, TypeOK', ClipInv, [Next]_vars PROVE ClipInv'
  OBVIOUS
<1>1. CASE UNCHANGED vars
  <2>1. UNCHANGED <<clips, sora, manifest, repairs, contested, resume, thread, poll, hook,
                    call>>
    BY <1>1 DEF vars, run, jobs, hooks, polls
  <2>2. HangsUp
    BY <2>1 DEF HangsUp
  <2>. QED
    BY <2>1, <2>2, HangupKeeps DEF Asked, ClipInv, BegunOK
<1>2. CASE Next
  BY <1>2, ProduceKeeps, SoraKeeps, HookBeginsKeeps, HookStepKeeps, PollBeginsKeeps,
     PollStepKeeps, ResumesKeeps, RepairKeeps DEF Next, Begin, Work
<1>. QED
  BY <1>1, <1>2

LEMMA InitHolds == Init => TypeOK /\ ClipInv
<1>. SUFFICES ASSUME Init PROVE TypeOK /\ ClipInv
  OBVIOUS
<1>1. TypeOK
  <2>1. clips \in Seq(Tasks)
    BY EmptySeq DEF Init
  <2>. QED
    BY <2>1, NoCallFields DEF Init, TypeOK, Status, Job
<1>2. /\ \A w \in Workers : call[w] = NoCall
      /\ Len(clips) = 0 /\ DOMAIN clips = {} /\ Stored = {}
  BY EmptySeq, LenProperties DEF Init, Stored, Range
<1>3. CallsOK /\ LockOK /\ RacesOK
  BY <1>2, NoCallFields DEF CallsOK, LockOK, RacesOK, Idle, Active
<1>4. ~Resuming
  BY <1>2, NoCallFields DEF Init, Resuming
<1>5. BegunOK /\ OneSubmission /\ SecondClipNeedsRace /\ EarlyResumeExplained
  BY <1>2, <1>4 DEF Init, BegunOK, OneSubmission, SecondClipNeedsRace, EarlyResumeExplained,
     Asked
<1>. QED
  BY <1>1, <1>3, <1>5 DEF ClipInv

LEMMA ClipInvHolds == Spec => [](TypeOK /\ ClipInv)
<1>1. TypeOK /\ ClipInv /\ [Next]_vars => (TypeOK /\ ClipInv)'
  BY NextTyped, StepsKeep
<1>. QED
  BY <1>1, InitHolds, PTL DEF Spec

-----------------------------------------------------------------------------
(* Theorems.                                                               *)

\* However the jobs, the requests and the operators of a run interleave, its state
\* is well typed; in particular the newest clip a repair keeps is one that is stored.
THEOREM ClipsTypedAlways == Spec => []TypeOK
  BY ClipInvHolds, PTL

\* A task gets a second clip only if two executions ingested it at once (the route,
\* webhook.sora, sora.poll).
THEOREM SecondClipMeansRace == Spec => []SecondClipNeedsRace
<1>1. ClipInv => SecondClipNeedsRace
  BY DEF ClipInv
<1>. QED
  BY ClipInvHolds, <1>1, PTL

\* Nobody is told to resume with a clip missing but after such a race or a second
\* submission: counting clips is as good as looking for each.
THEOREM EarlyResumeMeansRace == Spec => []EarlyResumeExplained
<1>1. ClipInv => EarlyResumeExplained
  BY DEF ClipInv
<1>. QED
  BY ClipInvHolds, <1>1, PTL

\* The step that stores the last clip is no step that leaves it unnoticed: who counts
\* under the lock counts them all.
LEMMA LastStored ==
    ASSUME TypeOK, TypeOK', ClipInv, [Next]_vars, ~AllStored, AllStored'
    PROVE  \/ Resuming' \/ status' = "failed"
           \/ poll' = "open" \/ pollTries' >= MaxPolls
<1>1. clips' # clips
  <2>. SUFFICES ASSUME clips' = clips PROVE FALSE
    OBVIOUS
  <2>1. PICK t \in manifest' : t \in Tasks /\ ~Asked(t)
    <3>1. CASE SoraGenerate
      <4>1. PICK k \in 1 .. N : manifest' = {t \in Tasks : t.gen = NewRequest /\ t.index < k}
        BY <3>1 DEF SoraGenerate, StoresManifest
      <4>2. manifest' # {} /\ \A t \in manifest' : t \in Tasks /\ t.gen = NewRequest
        BY <4>1 DEF AllStored
      <4>3. \A t \in Tasks : t.gen = NewRequest => ~Asked(t)
        BY DEF NewRequest, ClipInv, BegunOK, TypeOK
      <4>. QED
        BY <4>2, <4>3
    <3>2. CASE FakeGenerate
      <4>1. manifest = {} /\ manifest' = FakeTasks
        BY <3>2 DEF FakeGenerate, FakeCompletes
      <4>2. \A t \in Tasks : ~Asked(t)
        BY <4>1 DEF ClipInv, BegunOK
      <4>3. manifest' # {} /\ manifest' \subseteq Tasks
        BY DEF AllStored, TypeOK
      <4>. QED
        BY <4>2, <4>3
    <3>3. CASE \E requested \in SUBSET Indices, force \in Forces : Repair(requested, force)
      <4>1. PICK requested \in SUBSET Indices, force \in Forces : Repair(requested, force)
        BY <3>3
      <4>. DEFINE missing == Missing(requested, force)
      <4>2. repairs < MaxRepairs /\ missing # {}
        BY <4>1 DEF Repair
      <4>3. manifest' = Mapping(missing)
        BY <4>1 DEF Repair, RepairWrites, run, AllStored, Stored
      <4>4. PICK i \in missing : TRUE
        BY <4>2
      <4>. DEFINE t == [index |-> i, gen |-> repairs + 1]
      <4>5. t \in Tasks /\ t.gen = repairs + 1 /\ t.index \in missing
        BY <4>2, <4>4, ClipsAssumption DEF Tasks, Missing, TypeOK
      <4>. HIDE DEF t
      <4>6. t \in Mapping(missing)
        BY <4>5 DEF Mapping, Resubmitted
      <4>7. ~Asked(t)
        BY <4>5 DEF ClipInv, BegunOK, TypeOK
      <4>. QED
        BY <4>3, <4>5, <4>6, <4>7
    <3>4. CASE UNCHANGED manifest
      BY <3>4 DEF AllStored, Stored
    <3>5. \/ SoraGenerate \/ FakeGenerate \/ UNCHANGED manifest
          \/ \E requested \in SUBSET Indices, force \in Forces : Repair(requested, force)
      <4>1. \A w \in Workers, t \in Tasks : HookStep(w, t) => UNCHANGED manifest
        BY DEF HookStep, HookGivesUp, DownloadRaises, TranscodeFails, HookInserts, Inserts, HookCounts, HookDeadlocks,
           HookCommits, RequestCommits, run
      <4>2. \A w \in Workers : PollStep(w) => UNCHANGED manifest
        BY DEF PollStep, PollInserts, Inserts, PollFails, PollCompletes, PollWaits, PollRaises,
           PollStores, run
      <4>3. \A w \in Workers : PollBegins(w) \/ RequestResumes(w) \/ Crash(w)
                              => UNCHANGED manifest
        BY DEF PollBegins, RequestResumes, Crash, run
      <4>4. \A w \in Workers, t \in Tasks :
               HookBegins(w, t) \/ RequestBegins(w, t) => UNCHANGED manifest
        BY DEF HookBegins, RequestBegins
      <4>5. \A t \in Tasks : SoraFinishes(t) \/ SoraWebhook(t) => UNCHANGED manifest
        BY DEF SoraFinishes, SoraWebhook, run
      <4>6. ProductionEnds \/ ProductionFails \/ ResumeVideos \/ ResumeGivesUp \/ LaterFails
               => UNCHANGED manifest
        BY DEF ProductionEnds, ProductionFails, ResumeVideos, ResumeGivesUp, LaterFails, run
      <4>7. UNCHANGED vars => UNCHANGED manifest
        BY DEF vars, run
      <4>. QED
        BY <4>1, <4>2, <4>3, <4>4, <4>5, <4>6, <4>7 DEF Next, Produce, Begin, Work
    <3>. QED
      BY <3>1, <3>2, <3>3, <3>4, <3>5
  <2>2. t \in Stored
    BY <2>1 DEF AllStored, Stored
  <2>. QED
    BY <2>1, <2>2 DEF ClipInv, BegunOK
<1>2. \/ \E w \in Workers, t \in Tasks : HookCommits(w, t) \/ RequestCommits(w, t)
      \/ \E w \in Workers : PollFails(w) \/ PollCompletes(w) \/ PollWaits(w)
  BY <1>1 DEF Next, Produce, Begin, Work, HookStep, PollStep, SoraGenerate, StoresManifest, FakeGenerate, FakeCompletes,
     ProductionEnds, ProductionFails, SoraFinishes, SoraWebhook, HookBegins,
     RequestBegins, HookGivesUp, DownloadRaises, TranscodeFails, HookInserts, Inserts, HookCounts, HookDeadlocks, PollBegins,
     PollInserts, Inserts, PollRaises, Crash, ResumeVideos, ResumeGivesUp, RequestResumes,
     LaterFails, Repair, vars, run
<1>3. ASSUME NEW w \in Workers, NEW t \in Tasks, HookCommits(w, t) \/ RequestCommits(w, t)
      PROVE  Resuming' \/ status' = "failed"
  <2>1. HookStores(t) /\ UNCHANGED manifest /\ call[w].pc = "counted"
    BY <1>1, <1>3 DEF HookCommits, RequestCommits, InHook
  <2>2. PICK s \in Seq(Tasks) : clips' = clips \o s /\ Len(s) = 1
    BY <2>1, StoredByHook
  <2>3. /\ Len(clips') = Len(clips) + 1 /\ clips' \in Seq(Tasks) /\ Len(clips') \in Nat
    BY <2>2, ConcatFacts, LenProperties DEF TypeOK
  <2>4. Complete(Len(clips'))
    <3>1. manifest \subseteq Range(clips')
      BY <2>1 DEF AllStored, Stored
    <3>2. Range(clips') \in SUBSET Tasks
      BY <2>3, LenProperties DEF Range
    <3>3. IsFiniteSet(Range(clips')) /\ Cardinality(Range(clips')) <= Len(clips')
          /\ Cardinality(Range(clips')) \in Nat
      BY <2>3, <3>2, RangeIsFinite, TasksAreFinite
    <3>4. Cardinality(manifest) <= Cardinality(Range(clips'))
      BY <3>1, <3>3, FS_Subset
    <3>5. Expected \in Nat
      BY CompleteTyped
    <3>. QED
      BY <2>3, <3>3, <3>4, <3>5 DEF Complete, Expected
  <2>5. call[w].ready
    BY <2>1, <2>3, <2>4 DEF ClipInv, LockOK
  <2>6. CASE RequestCommits(w, t)
    <3>1. call'[w].pc = "resuming"
      BY <2>6, CallMoved DEF RequestCommits
    <3>. QED
      BY <3>1 DEF Resuming
  <2>7. CASE HookCommits(w, t)
    <3>1. status' = "failed" \/ resume' = "open"
      BY <1>1, <2>5, <2>7 DEF HookCommits
    <3>. QED
      BY <3>1 DEF Resuming
  <2>. QED
    BY <1>3, <2>6, <2>7
<1>4. ASSUME NEW w \in Workers, PollFails(w) \/ PollCompletes(w) \/ PollWaits(w)
      PROVE  Resuming' \/ status' = "failed" \/ poll' = "open" \/ pollTries' >= MaxPolls
  BY <1>4 DEF PollFails, PollCompletes, PollWaits, PollRetried, PollStores, Resuming
<1>. QED
  BY <1>2, <1>3, <1>4

\* The last clip of the manifest wakes the thread (the lock on the row of the run, under
\* which webhook.sora and the route count).
THEOREM LastClipIsNoticed == Spec => LastClipWakes
<1>1. TypeOK /\ ClipInv /\ (TypeOK /\ ClipInv)' /\ [Next]_vars
        => [(~AllStored /\ AllStored')
              => \/ Resuming'
                 \/ status' = "failed"
                 \/ poll' = "open" \/ pollTries' >= MaxPolls]_vars
  BY LastStored
<1>. QED
  BY ClipInvHolds, <1>1, PTL DEF Spec, LastClipWakes

\* The thread goes on without a clip of its manifest only after a race: a stale
\* resume job does not make old clips do for those a repair has asked for
\* (select_latest_video_clip_urls).
THEOREM StaleClipsNeedRace == Spec => NoStaleClips
<1>1. TypeOK /\ ClipInv /\ [Next]_vars
        => [(thread = "waiting" /\ thread' = "past") => (AllStored \/ contested # {})]_vars
  <2>. SUFFICES ASSUME TypeOK, ClipInv, [Next]_vars, thread = "waiting", thread' = "past",
                       contested = {}
                PROVE  AllStored
    OBVIOUS
  <2>1. ResumeAfterVideos
    BY DEF Next, Produce, Begin, Work, HookStep, PollStep, SoraGenerate, StoresManifest, FakeGenerate, FakeCompletes,
       ProductionEnds, ProductionFails, SoraFinishes, SoraWebhook, HookBegins,
       RequestBegins, HookGivesUp, DownloadRaises, TranscodeFails, HookInserts, Inserts, HookCounts, HookDeadlocks, HookCommits,
       RequestCommits, PollBegins, PollInserts, Inserts, PollFails, PollCompletes, PollWaits,
       PollRaises, PollStores, Crash, ResumeVideos, ResumeGivesUp, RequestResumes,
       LaterFails, Repair, vars, run
  <2>2. Selects
    BY <2>1 DEF ResumeAfterVideos
  <2>3. IsInjective(clips)
    BY DEF ClipInv, SecondClipNeedsRace, IsInjective
  <2>4. manifest \subseteq Range(clips)
    BY <2>2, <2>3, ChosenAreAll DEF TypeOK, Selects, Selected, Expected
  <2>. QED
    BY <2>4 DEF ClipInv, BegunOK, AllStored, Stored
<1>. QED
  BY ClipInvHolds, <1>1, PTL DEF Spec, NoStaleClips

-----------------------------------------------------------------------------
(* What the steps do to the jobs and to those who execute them.            *)

\* There are jobs with the "db" dispatcher only, and no poll before the producer's
\* turn has ended.
JobsOK ==
    /\ dispatcher # "db" => \A t \in Tasks : hook[t] = "absent"
    /\ poll # "absent" \/ (\E w \in Workers : call[w].op = "poll")
          => dispatcher = "db" /\ thread # "producing"

\* Every call goes on with what it is about, if it goes on; w hangs up.
Same(w)   == call'[w].op = call[w].op /\ call'[w].tasks = call[w].tasks
GoOn      == \A w \in Workers : Same(w)
Leaves(w) == call'[w].op = "none" /\ \A v \in Workers \ {w} : Same(v)

LEMMA HangupLeaves ==
    ASSUME TypeOK, NEW w \in Workers, Hangup(w)
    PROVE  Leaves(w)
  BY CallPut, NoCallFields DEF Hangup, Leaves, Same

LEMMA MovesGoOn ==
    ASSUME TypeOK, NEW w \in Workers,
           NEW p \in {"idle", "fetching", "inserted", "counted", "resuming"},
           NEW b \in BOOLEAN,
           call' \in {[call EXCEPT ![w].pc = p], [call EXCEPT ![w].pc = p, ![w].ready = b]}
    PROVE  GoOn
  BY CallMoved DEF GoOn, Same

LEMMA FetchTakes ==
    ASSUME TypeOK, NEW w \in Workers, NEW c \in Call, Fetch(w, c, c.tasks)
    PROVE  call'[w] = c /\ \A v \in Workers \ {w} : Same(v)
  BY CallPut DEF Fetch, Same

\* A step of webhook.sora or of a request.
LEMMA HookStepJobs ==
    ASSUME TypeOK, NEW w \in Workers, NEW t \in Tasks, HookStep(w, t)
    PROVE  /\ UNCHANGED <<dispatcher, provider, poll, pollTries, thread, tries, pending, repairs>>
           /\ status' \in {status, "failed", "awaiting_render"}
           /\ call[w].op = "hook" /\ call[w].tasks = {t}
           /\ \/ hook' = hook /\ GoOn
              \/ hook' \in {Retried(t), Finished(t)} /\ Leaves(w)
              \/ hook' = Finished(t) /\ GoOn /\ dispatcher # "db"
<1>. USE DEF settings, run, jobs, hooks, polls, InHook
<1>1. CASE HookGivesUp(w, t)
  BY <1>1, HangupLeaves DEF HookGivesUp, DownloadRaises, TranscodeFails
<1>2. CASE HookInserts(w, t)
  BY <1>2, MovesGoOn DEF HookInserts, Inserts
<1>3. CASE HookCounts(w, t)
  <2>1. Complete(Len(clips) + 1) \in BOOLEAN
    BY CompleteTyped, LenProperties DEF TypeOK
  <2>2. call' = [call EXCEPT ![w].pc = "counted", ![w].ready = Complete(Len(clips) + 1)]
    BY <1>3 DEF HookCounts
  <2>3. GoOn
    BY <2>1, <2>2, MovesGoOn
  <2>. QED
    BY <1>3, <2>3 DEF HookCounts
<1>4. CASE HookDeadlocks(w, t)
  BY <1>4, HangupLeaves DEF HookDeadlocks
<1>5. CASE HookCommits(w, t)
  BY <1>5, HangupLeaves DEF HookCommits, HookStores, ClipsComplete
<1>6. CASE RequestCommits(w, t)
  BY <1>6, MovesGoOn DEF RequestCommits, HookStores, ClipsComplete
<1>. QED
  BY <1>1, <1>2, <1>3, <1>4, <1>5, <1>6 DEF HookStep

\* A step of sora.poll.
LEMMA PollStepJobs ==
    ASSUME TypeOK, NEW w \in Workers, PollStep(w)
    PROVE  /\ UNCHANGED <<dispatcher, provider, hook, tries, pollTries, thread, repairs>>
           /\ call[w].op = "poll"
           /\ \/ UNCHANGED <<poll, status, pending>> /\ GoOn
              \/ poll' = "done" /\ status' \in {"failed", "awaiting_render"} /\ Leaves(w)
              \/ poll' = PollRetried /\ status' = status /\ Leaves(w)
<1>. USE DEF settings, run, jobs, hooks, polls, InPoll
<1>1. CASE PollInserts(w)
  BY <1>1, MovesGoOn DEF PollInserts, Inserts
<1>2. CASE PollFails(w)
  BY <1>2, HangupLeaves DEF PollFails, PollStores
<1>3. CASE PollCompletes(w)
  BY <1>3, HangupLeaves DEF PollCompletes, Looped, PollStores
<1>4. CASE PollWaits(w)
  BY <1>4, HangupLeaves DEF PollWaits, Looped, PollStores
<1>5. CASE PollRaises(w)
  BY <1>5, HangupLeaves DEF PollRaises
<1>. QED
  BY <1>1, <1>2, <1>3, <1>4, <1>5 DEF PollStep

\* The claim of a webhook.sora job.
LEMMA HookBeginsJobs ==
    ASSUME TypeOK, NEW w \in Workers, NEW t \in Tasks, HookBegins(w, t)
    PROVE  /\ UNCHANGED <<dispatcher, provider, poll, pollTries, thread, pending, repairs>>
           /\ status' \in {status, "failed"}
           /\ Idle(w) /\ hook[t] = "open" /\ tries' = [tries EXCEPT ![t] = @ + 1]
           /\ \/ /\ hook' = hook
                 /\ call'[w].op = "hook" /\ call'[w].tasks = {t}
                 /\ \A v \in Workers \ {w} : Same(v)
              \/ hook' \in {[hook EXCEPT ![t] = "done"], Finished(t)} /\ GoOn
<1>. USE DEF settings, polls
<1>1. CASE HookFetches(w, t)
  <2>1. HookCall(t) \in Call /\ Fetch(w, HookCall(t), HookCall(t).tasks)
    BY <1>1, HookCallFields DEF HookFetches
  <2>2. /\ call'[w].op = "hook" /\ call'[w].tasks = {t}
        /\ \A v \in Workers \ {w} : Same(v)
    BY <2>1, FetchTakes, HookCallFields
  <2>. QED
    BY <1>1, <2>2 DEF HookBegins, HookFetches
<1>2. CASE HookSkips(t) \/ HookFails(t)
  BY <1>2 DEF HookBegins, HookSkips, HookFails, GoOn, Same
<1>. QED
  BY <1>1, <1>2 DEF HookBegins

\* The claim of sora.poll.
LEMMA PollBeginsJobs ==
    ASSUME TypeOK, NEW w \in Workers, PollBegins(w)
    PROVE  /\ UNCHANGED <<dispatcher, provider, hook, tries, thread, status, pending, repairs>>
           /\ Idle(w) /\ poll = "open" /\ pollTries' = pollTries + 1
           /\ \/ poll' = poll /\ call'[w].op = "poll" /\ \A v \in Workers \ {w} : Same(v)
              \/ poll' = "done" /\ status # "awaiting_video_generation" /\ GoOn
<1>. USE DEF settings, run, hooks
<1>1. CASE status = "awaiting_video_generation"
  <2>. DEFINE todo == (IF pending = {} THEN manifest ELSE pending) \ Stored
              S == {t \in todo : sora[t] # "working"}
              c == PollCall(todo, Len(clips), S)
  <2>1. Fetch(w, c, todo) /\ poll' = poll
    BY <1>1 DEF PollBegins, PollCall
  <2>2. todo \in SUBSET Tasks /\ S \in SUBSET Tasks /\ Len(clips) \in Nat
    BY LenProperties DEF TypeOK
  <2>. HIDE DEF todo, S
  <2>3. c \in Call /\ c.op = "poll" /\ c.tasks = todo
    BY <2>2, PollCallFields
  <2>. HIDE DEF c
  <2>4. call'[w] = c /\ \A v \in Workers \ {w} : Same(v)
    BY <2>1, <2>3, FetchTakes
  <2>. QED
    BY <2>1, <2>3, <2>4 DEF PollBegins
<1>2. CASE status # "awaiting_video_generation"
  BY <1>2 DEF PollBegins, GoOn, Same
<1>. QED
  BY <1>1, <1>2

\* A request begins, on a task without a job.
LEMMA RequestBeginsJobs ==
    ASSUME TypeOK, NEW w \in Workers, NEW t \in Tasks, RequestBegins(w, t)
    PROVE  /\ UNCHANGED <<dispatcher, provider, poll, pollTries, hook, tries, thread, pending, repairs>>
           /\ status' \in {status, "failed"} /\ dispatcher # "db"
           /\ \/ GoOn
              \/ Idle(w) /\ call'[w].op = "hook" /\ \A v \in Workers \ {w} : Same(v)
<1>. USE DEF settings, polls
<1>1. CASE HookFetches(w, t)
  <2>1. HookCall(t) \in Call /\ Fetch(w, HookCall(t), HookCall(t).tasks)
    BY <1>1, HookCallFields DEF HookFetches
  <2>2. call'[w].op = "hook" /\ \A v \in Workers \ {w} : Same(v)
    BY <2>1, FetchTakes, HookCallFields
  <2>. QED
    BY <1>1, <2>2 DEF RequestBegins, HookFetches
<1>2. CASE HookFails(t)
  BY <1>2 DEF RequestBegins, HookFails, Finished, GoOn, Same
<1>. QED
  BY <1>1, <1>2 DEF RequestBegins

\* What touches no job, and takes none.
Others ==
    \/ SoraGenerate \/ FakeGenerate \/ ProductionFails
    \/ ResumeVideos \/ ResumeGivesUp \/ LaterFails
    \/ \E w \in Workers : RequestResumes(w) \/ Crash(w)
    \/ \E t \in Tasks : SoraFinishes(t)
    \/ \E requested \in SUBSET Indices, force \in Forces : Repair(requested, force)
    \/ UNCHANGED vars

LEMMA OthersJobs ==
    ASSUME TypeOK, Others
    PROVE  /\ UNCHANGED <<dispatcher, provider, hook, tries, poll, pollTries>>
           /\ thread' \in {thread, "failed", "past"}
           /\ GoOn \/ \E w \in Workers : Leaves(w)
<1>. USE DEF settings, run, jobs, hooks, polls, GoOn, Same
<1>1. CASE SoraGenerate \/ FakeGenerate \/ ProductionFails
  BY <1>1 DEF SoraGenerate, FakeGenerate, ProductionFails
<1>2. CASE ResumeVideos \/ ResumeGivesUp \/ LaterFails
  BY <1>2 DEF ResumeVideos, ResumeAfterVideos, ResumeGivesUp, LaterFails
<1>3. ASSUME NEW w \in Workers, RequestResumes(w) \/ Crash(w)
      PROVE  /\ UNCHANGED <<dispatcher, provider, hook, tries, poll, pollTries>>
             /\ thread' \in {thread, "failed", "past"}
             /\ Leaves(w)
  BY <1>3, HangupLeaves DEF RequestResumes, ResumeAfterVideos, Crash
<1>4. CASE UNCHANGED vars \/ \E t \in Tasks : SoraFinishes(t)
  BY <1>4 DEF vars, SoraFinishes
<1>5. ASSUME NEW T \in SUBSET Indices, NEW f \in Forces, Repair(T, f)
      PROVE  UNCHANGED <<dispatcher, provider, hook, tries, poll, pollTries, thread, call>>
  BY <1>5 DEF Repair
<1>. QED
  BY <1>1, <1>2, <1>3, <1>4, <1>5 DEF Others

\* The kinds of step there are.
LEMMA StepKinds ==
    ASSUME [Next]_vars
    PROVE  \/ Others
           \/ ProductionEnds
           \/ \E t \in Tasks : SoraWebhook(t)
           \/ \E w \in Workers : PollBegins(w) \/ PollStep(w)
           \/ \E w \in Workers, t \in Tasks : HookBegins(w, t) \/ HookStep(w, t) \/ RequestBegins(w, t)
  BY DEF Next, Produce, Begin, Work, Others

LEMMA JobsStep ==
    ASSUME TypeOK, JobsOK, [Next]_vars
    PROVE  JobsOK'
<1>. USE DEF JobsOK, Same, GoOn, Leaves
<1>1. CASE Others
  BY <1>1, OthersJobs
<1>2. CASE ProductionEnds
  BY <1>2 DEF ProductionEnds, settings, hooks, TypeOK
<1>3. ASSUME NEW t \in Tasks, SoraWebhook(t) PROVE JobsOK'
  BY <1>3 DEF SoraWebhook, settings, polls
<1>4. ASSUME NEW w \in Workers, NEW t \in Tasks, HookBegins(w, t) PROVE JobsOK'
  BY <1>4, HookBeginsJobs
<1>5. ASSUME NEW w \in Workers, NEW t \in Tasks, HookStep(w, t) PROVE JobsOK'
  <2>1. hook' = hook \/ dispatcher = "db"
    BY <1>5, HookStepJobs DEF Retried, Finished
  <2>. QED
    BY <1>5, <2>1, HookStepJobs
<1>6. ASSUME NEW w \in Workers, PollBegins(w) PROVE JobsOK'
  BY <1>6, PollBeginsJobs
<1>7. ASSUME NEW w \in Workers, PollStep(w) PROVE JobsOK'
  BY <1>7, PollStepJobs
<1>8. ASSUME NEW w \in Workers, NEW t \in Tasks, RequestBegins(w, t) PROVE JobsOK'
  BY <1>8, RequestBeginsJobs
<1>. QED
  BY StepKinds, <1>1, <1>2, <1>3, <1>4, <1>5, <1>6, <1>7, <1>8

LEMMA JobsHold == Spec => []JobsOK
<1>1. Init => JobsOK
  BY NoCallFields DEF Init, JobsOK
<1>2. TypeOK /\ JobsOK /\ [Next]_vars => JobsOK'
  BY JobsStep
<1>. QED
  BY ClipInvHolds, <1>1, <1>2, PTL DEF Spec

-----------------------------------------------------------------------------
(* The jobs rely on no more than the queue promises.                       *)

\* Who executes the job of a task, and who sora.poll.
Hooking == [t \in Tasks |->
               {w \in Workers : dispatcher = "db" /\ call[w].op = "hook" /\ call[w].tasks = {t}}]
Polling == [j \in {"poll"} |-> {w \in Workers : call[w].op = "poll"}]

LEMMA GoOnExecutes ==
    ASSUME GoOn, dispatcher' = dispatcher
    PROVE  Hooking' = Hooking /\ Polling' = Polling
  BY DEF GoOn, Same, Hooking, Polling

LEMMA LeavesExecutes ==
    ASSUME NEW w \in Workers, Leaves(w), dispatcher' = dispatcher
    PROVE  /\ \A t \in Tasks : Hooking'[t] = Hooking[t] \ {w}
           /\ Polling'["poll"] = Polling["poll"] \ {w}
  BY DEF Leaves, Same, Hooking, Polling

\* Whoever leaves without a word about a job is lost to it.
LEMMA LostHook ==
    ASSUME UNCHANGED <<dispatcher, hook, tries>>, GoOn \/ \E w \in Workers : Leaves(w)
    PROVE  [HookPromise!Next]_(HookPromise!vars)
<1>1. CASE GoOn
  BY <1>1, GoOnExecutes DEF HookPromise!vars, Hooking
<1>2. ASSUME NEW w \in Workers, Leaves(w) PROVE HookPromise!Next
  <2>1. Hooking' = [t \in Tasks |-> Hooking[t] \ {w}]
    BY <1>2, LeavesExecutes DEF Hooking
  <2>2. HookPromise!Lose({w})
    BY <2>1 DEF HookPromise!Lose, Hooking
  <2>. QED
    BY <2>2 DEF HookPromise!Next
<1>. QED
  BY <1>1, <1>2

LEMMA LostPoll ==
    ASSUME UNCHANGED <<dispatcher, poll, pollTries>>, GoOn \/ \E w \in Workers : Leaves(w)
    PROVE  [PollPromise!Next]_(PollPromise!vars)
<1>1. CASE GoOn
  BY <1>1, GoOnExecutes DEF PollPromise!vars, Polling
<1>2. ASSUME NEW w \in Workers, Leaves(w) PROVE PollPromise!Next
  <2>1. Polling' = [j \in {"poll"} |-> Polling[j] \ {w}]
    BY <1>2, LeavesExecutes DEF Polling
  <2>2. PollPromise!Lose({w})
    BY <2>1 DEF PollPromise!Lose, Polling
  <2>. QED
    BY <2>2 DEF PollPromise!Next
<1>. QED
  BY <1>1, <1>2

\* The end of an execution of a webhook.sora job.
LEMMA EndOfHook ==
    ASSUME TypeOK, NEW w \in Workers, NEW t \in Tasks, Leaves(w),
           UNCHANGED <<dispatcher, tries>>,
           call[w].op = "hook", call[w].tasks = {t}, hook' \in {Retried(t), Finished(t)}
    PROVE  [HookPromise!Next]_(HookPromise!vars)
<1>1. CASE dispatcher = "db"
  <2>1. PICK verdict \in {"open", "done", "dead"} :
           hook' = [hook EXCEPT ![t] = verdict] /\ (verdict = "dead" => tries[t] >= MaxTries)
    BY <1>1 DEF Retried, Finished
  <2>2. w \in Hooking[t]
    BY <1>1 DEF Hooking
  <2>3. \A u \in Tasks : u # t => w \notin Hooking[u]
    BY DEF Hooking
  <2>4. Hooking' = [Hooking EXCEPT ![t] = @ \ {w}]
    <3>1. \A u \in Tasks : Hooking'[u] = IF u = t THEN Hooking[u] \ {w} ELSE Hooking[u]
      <4>1. \A u \in Tasks : Hooking'[u] = Hooking[u] \ {w}
        BY LeavesExecutes
      <4>2. \A u \in Tasks : u # t => Hooking[u] \ {w} = Hooking[u]
        BY <2>3
      <4>. QED
        BY <4>1, <4>2
    <3>2. Hooking = [u \in Tasks |-> Hooking[u]] /\ Hooking' = [u \in Tasks |-> Hooking'[u]]
      BY DEF Hooking
    <3>. QED
      BY <3>1, <3>2
  <2>5. HookPromise!End(t, w, verdict)
    BY <2>1, <2>2, <2>4 DEF HookPromise!End, Hooking
  <2>. QED
    BY <2>5 DEF HookPromise!Next
<1>2. CASE dispatcher # "db"
  BY <1>2, LostHook DEF Retried, Finished
<1>. QED
  BY <1>1, <1>2

\* The claim of a webhook.sora job.
LEMMA StartOfHook ==
    ASSUME TypeOK, ClipInv, JobsOK, NEW w \in Workers, NEW t \in Tasks, HookBegins(w, t)
    PROVE  HookPromise!Next
<1>1. dispatcher = "db" /\ dispatcher' = dispatcher
  BY HookBeginsJobs DEF JobsOK
<1>2. hook[t] = "open" /\ tries' = [tries EXCEPT ![t] = @ + 1]
  BY HookBeginsJobs
<1>3. call[w].op = "none"
  BY HookBeginsJobs, NoCallFields DEF ClipInv, CallsOK
<1>4. HookPromise!Free(w)
  BY <1>3 DEF HookPromise!Free
<1>5. CASE hook' = hook /\ call'[w].op = "hook" /\ call'[w].tasks = {t}
           /\ \A v \in Workers \ {w} : Same(v)
  <2>1. \A u \in Tasks : Hooking'[u] = IF u = t THEN Hooking[u] \cup {w} ELSE Hooking[u]
    BY <1>1, <1>3, <1>5 DEF Hooking, Same
  <2>2. Hooking = [u \in Tasks |-> Hooking[u]] /\ Hooking' = [u \in Tasks |-> Hooking'[u]]
    BY DEF Hooking
  <2>3. Hooking' = [Hooking EXCEPT ![t] = @ \cup {w}]
    BY <2>1, <2>2
  <2>4. HookPromise!Start(t, w)
    BY <1>2, <1>4, <1>5, <2>3 DEF HookPromise!Start, Hooking
  <2>. QED
    BY <2>4 DEF HookPromise!Next
<1>6. CASE hook' \in {[hook EXCEPT ![t] = "done"], Finished(t)} /\ GoOn
  <2>1. Hooking' = Hooking
    BY <1>1, <1>6, GoOnExecutes
  <2>2. hook' = [hook EXCEPT ![t] = "done"]
    BY <1>1, <1>6 DEF Finished
  <2>3. HookPromise!Attempt(t, w, "done")
    BY <1>2, <1>4, <2>1, <2>2 DEF HookPromise!Attempt, Hooking
  <2>. QED
    BY <2>3 DEF HookPromise!Next
<1>. QED
  BY <1>5, <1>6, HookBeginsJobs

LEMMA HookPromiseStep ==
    ASSUME TypeOK, ClipInv, JobsOK, [Next]_vars
    PROVE  [HookPromise!Next]_(HookPromise!vars)
<1>. DEFINE Goal == [HookPromise!Next]_(HookPromise!vars)
<1>1. CASE Others
  BY <1>1, OthersJobs, LostHook
<1>2. CASE ProductionEnds
  BY <1>2, LostHook DEF ProductionEnds, settings, hooks, GoOn, Same
<1>3. ASSUME NEW t \in Tasks, SoraWebhook(t) PROVE HookPromise!Next
  <2>1. Hooking' = Hooking
    BY <1>3, GoOnExecutes DEF SoraWebhook, settings, GoOn, Same
  <2>2. HookPromise!Submit(t)
    BY <1>3, <2>1 DEF SoraWebhook, HookPromise!Submit, Hooking
  <2>. QED
    BY <2>2 DEF HookPromise!Next
<1>4. ASSUME NEW w \in Workers, NEW t \in Tasks, HookBegins(w, t) PROVE HookPromise!Next
  BY <1>4, StartOfHook
<1>5. ASSUME NEW w \in Workers, NEW t \in Tasks, HookStep(w, t) PROVE Goal
  <2>1. CASE GoOn
    <3>1. hook' = hook
      BY <1>5, <2>1, HookStepJobs DEF Finished, Leaves, GoOn, Same
    <3>. QED
      BY <1>5, <2>1, <3>1, HookStepJobs, LostHook
  <2>2. CASE Leaves(w) /\ hook' \in {Retried(t), Finished(t)}
    BY <1>5, <2>2, HookStepJobs, EndOfHook
  <2>. QED
    BY <1>5, <2>1, <2>2, HookStepJobs
<1>6. ASSUME NEW w \in Workers, PollBegins(w) PROVE Goal
  <2>1. call[w].op = "none"
    BY <1>6, PollBeginsJobs, NoCallFields DEF ClipInv, CallsOK
  <2>2. Hooking' = Hooking
    BY <1>6, <2>1, PollBeginsJobs DEF Hooking, GoOn, Same
  <2>. QED
    BY <1>6, <2>2, PollBeginsJobs DEF HookPromise!vars, Hooking
<1>7. ASSUME NEW w \in Workers, PollStep(w) PROVE Goal
  BY <1>7, PollStepJobs, LostHook
<1>8. ASSUME NEW w \in Workers, NEW t \in Tasks, RequestBegins(w, t) PROVE Goal
  <2>1. Hooking' = Hooking
    BY <1>8, RequestBeginsJobs DEF Hooking
  <2>. QED
    BY <1>8, <2>1, RequestBeginsJobs DEF HookPromise!vars, Hooking
<1>. QED
  BY StepKinds, <1>1, <1>2, <1>3, <1>4, <1>5, <1>6, <1>7, <1>8

\* An execution of sora.poll, from its claim to its end.
LEMMA PollPromiseStep ==
    ASSUME TypeOK, ClipInv, JobsOK, [Next]_vars
    PROVE  [PollPromise!Next]_(PollPromise!vars)
<1>. DEFINE Goal == [PollPromise!Next]_(PollPromise!vars)
<1>1. CASE Others
  BY <1>1, OthersJobs, LostPoll
<1>2. CASE ProductionEnds
  <2>1. poll = "absent" /\ pollTries' = pollTries /\ poll' \in {poll, "open"} /\ Polling' = Polling
    BY <1>2, GoOnExecutes DEF ProductionEnds, JobsOK, settings, GoOn, Same
  <2>2. CASE poll' = poll
    BY <2>1, <2>2 DEF PollPromise!vars, Polling
  <2>3. CASE poll' = "open"
    <3>1. PollPromise!Submit("poll")
      BY <2>1, <2>3 DEF PollPromise!Submit, Polling
    <3>. QED
      BY <3>1 DEF PollPromise!Next
  <2>. QED
    BY <2>1, <2>2, <2>3
<1>3. ASSUME NEW t \in Tasks, SoraWebhook(t) PROVE Goal
  BY <1>3, LostPoll DEF SoraWebhook, settings, polls, GoOn, Same
<1>4. ASSUME NEW w \in Workers, NEW t \in Tasks, HookBegins(w, t) PROVE Goal
  <2>1. call[w].op = "none"
    BY <1>4, HookBeginsJobs, NoCallFields DEF ClipInv, CallsOK
  <2>2. Polling' = Polling
    BY <1>4, <2>1, HookBeginsJobs DEF Polling, GoOn, Same
  <2>. QED
    BY <1>4, <2>2, HookBeginsJobs DEF PollPromise!vars, Polling
<1>5. ASSUME NEW w \in Workers, NEW t \in Tasks, HookStep(w, t) PROVE Goal
  BY <1>5, HookStepJobs, LostPoll
<1>6. ASSUME NEW w \in Workers, PollBegins(w) PROVE PollPromise!Next
  <2>1. call[w].op = "none"
    BY <1>6, PollBeginsJobs, NoCallFields DEF ClipInv, CallsOK
  <2>2. PollPromise!Free(w)
    BY <2>1 DEF PollPromise!Free
  <2>3. CASE poll' = poll /\ call'[w].op = "poll" /\ \A v \in Workers \ {w} : Same(v)
    <3>1. Polling' = [Polling EXCEPT !["poll"] = @ \cup {w}]
      BY <2>3 DEF Polling, Same
    <3>2. PollPromise!Start("poll", w)
      BY <1>6, <2>2, <2>3, <3>1, PollBeginsJobs DEF PollPromise!Start, Polling
    <3>. QED
      BY <3>2 DEF PollPromise!Next
  <2>4. CASE poll' = "done" /\ GoOn
    <3>1. Polling' = Polling
      BY <1>6, <2>4, PollBeginsJobs, GoOnExecutes
    <3>2. PollPromise!Attempt("poll", w, "done")
      BY <1>6, <2>2, <2>4, <3>1, PollBeginsJobs DEF PollPromise!Attempt, Polling
    <3>. QED
      BY <3>2 DEF PollPromise!Next
  <2>. QED
    BY <1>6, <2>3, <2>4, PollBeginsJobs
<1>7. ASSUME NEW w \in Workers, PollStep(w) PROVE Goal
  <2>1. CASE GoOn /\ poll' = poll
    BY <1>7, <2>1, PollStepJobs, LostPoll
  <2>2. CASE Leaves(w) /\ poll' \in {"done", PollRetried}
    <3>1. PICK verdict \in {"open", "done", "dead"} :
             poll' = verdict /\ (verdict = "dead" => pollTries >= MaxPolls)
      BY <2>2 DEF PollRetried
    <3>2. w \in Polling["poll"] /\ pollTries' = pollTries /\ dispatcher' = dispatcher
      BY <1>7, PollStepJobs DEF Polling
    <3>3. Polling' = [Polling EXCEPT !["poll"] = @ \ {w}]
      BY <2>2, <3>2, LeavesExecutes DEF Polling
    <3>4. PollPromise!End("poll", w, verdict)
      BY <3>1, <3>2, <3>3 DEF PollPromise!End, Polling
    <3>. QED
      BY <3>4 DEF PollPromise!Next
  <2>. QED
    BY <1>7, <2>1, <2>2, PollStepJobs
<1>8. ASSUME NEW w \in Workers, NEW t \in Tasks, RequestBegins(w, t) PROVE Goal
  <2>1. Idle(w) => call[w].op = "none"
    BY NoCallFields DEF ClipInv, CallsOK
  <2>2. Polling' = Polling
    BY <1>8, <2>1, RequestBeginsJobs DEF Polling, GoOn, Same
  <2>. QED
    BY <1>8, <2>2, RequestBeginsJobs DEF PollPromise!vars, Polling
<1>. QED
  BY StepKinds, <1>1, <1>2, <1>3, <1>4, <1>5, <1>6, <1>7, <1>8

\* webhook.sora and sora.poll rely on no more than the queue promises: retries,
\* reschedulings and events of failure settle a job only where an execution of it ends.
THEOREM JobsKeepPromise == Spec => PromiseRelied
<1>1. Init => HookPromise!Init
  BY NoCallFields DEF Init, HookPromise!Init
<1>2. Init => PollPromise!Init
  BY NoCallFields DEF Init, PollPromise!Init
<1>3. TypeOK /\ ClipInv /\ JobsOK /\ [Next]_vars => [HookPromise!Next]_(HookPromise!vars)
  BY HookPromiseStep
<1>4. TypeOK /\ ClipInv /\ JobsOK /\ [Next]_vars => [PollPromise!Next]_(PollPromise!vars)
  BY PollPromiseStep
<1>. QED
  BY ClipInvHolds, JobsHold, <1>1, <1>2, <1>3, <1>4, PTL
   DEF Spec, PromiseRelied, HookPromise!Spec, PollPromise!Spec

-----------------------------------------------------------------------------
(* The poll of a waiting run.                                              *)

LEMMA WaitStep ==
    ASSUME TypeOK, JobsOK, WaitHasPoll, [Next]_vars
    PROVE  WaitHasPoll'
<1>1. repairs \in Nat
  BY DEF TypeOK
<1>. USE DEF WaitHasPoll
<1>2. CASE ProductionEnds
  BY <1>2 DEF ProductionEnds, settings
<1>3. ASSUME NEW t \in Tasks, SoraWebhook(t) PROVE WaitHasPoll'
  BY <1>3 DEF SoraWebhook, settings, run, polls
<1>4. ASSUME NEW w \in Workers, NEW t \in Tasks, HookBegins(w, t) \/ HookStep(w, t) \/ RequestBegins(w, t)
      PROVE  WaitHasPoll'
  BY <1>4, HookBeginsJobs, HookStepJobs, RequestBeginsJobs
<1>5. ASSUME NEW w \in Workers, PollBegins(w) PROVE WaitHasPoll'
  BY <1>5, PollBeginsJobs
<1>6. ASSUME NEW w \in Workers, PollStep(w) PROVE WaitHasPoll'
  BY <1>6, PollStepJobs DEF PollRetried
<1>7. CASE SoraGenerate
  BY <1>7 DEF SoraGenerate
<1>8. CASE FakeGenerate \/ ProductionFails \/ LaterFails \/ ResumeVideos \/ ResumeGivesUp
  BY <1>8 DEF FakeGenerate, ProductionFails, LaterFails, ResumeVideos, ResumeGivesUp, ResumeAfterVideos,
              settings, run, jobs, polls
<1>9. CASE \E w \in Workers : RequestResumes(w) \/ Crash(w)
  BY <1>9 DEF RequestResumes, Crash, ResumeAfterVideos, settings, run, jobs, polls
<1>10. CASE UNCHANGED vars \/ \E t \in Tasks : SoraFinishes(t)
  BY <1>10 DEF vars, SoraFinishes, settings, run, jobs, polls
<1>11. ASSUME NEW T \in SUBSET Indices, NEW f \in Forces, Repair(T, f) PROVE WaitHasPoll'
  <2>1. repairs' = repairs + 1
    BY <1>11 DEF Repair
  <2>. QED
    BY <1>1, <2>1
<1>. QED
  BY StepKinds, <1>2, <1>3, <1>4, <1>5, <1>6, <1>7, <1>8, <1>9, <1>10, <1>11 DEF Others

\* A waiting run keeps its poll: sora.poll never settles itself while the run still waits
\* for the clips, unless videos have been submitted again since.
THEOREM WaitingRunsHavePoll == Spec => []WaitHasPoll
<1>1. Init => WaitHasPoll
  BY DEF Init, WaitHasPoll
<1>2. TypeOK /\ JobsOK /\ WaitHasPoll /\ [Next]_vars => WaitHasPoll'
  BY WaitStep
<1>. QED
  BY ClipInvHolds, JobsHold, <1>1, <1>2, PTL DEF Spec

===============================================================================
