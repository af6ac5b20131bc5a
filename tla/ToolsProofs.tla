---------------------------- MODULE ToolsProofs ---------------------------
(***************************************************************************)
(* Proofs about what stands between the model and a tool: the dispatcher   *)
(* of tool calls, for any set of calls, files and policies and any value   *)
(* of the thresholds; and the client of a tool server, for any goroutines  *)
(* and hosts, any catalogs and bodies of the server, and any limits.       *)
(***************************************************************************)
EXTENDS Tools, OrderedProofs, FiniteSetTheorems, FunctionTheorems,
        SequenceTheorems, TLAPS

-----------------------------------------------------------------------------
(* The window of remembered calls. *)

(* A bounded sequence is a sequence that is not longer than the bound. *)
LEMMA BoundedSeqFacts ==
  ASSUME NEW S, NEW n \in Nat, NEW s
  PROVE  s \in BoundedSeq(S, n) <=> s \in Seq(S) /\ Len(s) <= n
<1>1. ASSUME s \in BoundedSeq(S, n)
      PROVE  s \in Seq(S) /\ Len(s) <= n
  <2>1. PICK m \in 0 .. n : s \in [1 .. m -> S]
    BY <1>1 DEF BoundedSeq, SeqOf
  <2>2. s \in Seq(S) /\ Len(s) = m
    BY <2>1
  <2> QED
    BY <2>1, <2>2
<1>2. ASSUME s \in Seq(S), Len(s) <= n
      PROVE  s \in BoundedSeq(S, n)
  <2>1. Len(s) \in 0 .. n /\ s \in [1 .. Len(s) -> S]
    BY <1>2
  <2> QED
    BY <2>1 DEF BoundedSeq, SeqOf
<1> QED
  BY <1>1, <1>2

(* How far an entry moves when the window takes a new one. *)
Shift(h) == IF Len(h) < HistoryMax THEN 0 ELSE 1

(* A new entry comes last; when the window is full the first one leaves. *)
LEMMA RecentFacts ==
  ASSUME NEW S, NEW h \in BoundedSeq(S, HistoryMax), NEW e \in S
  PROVE  /\ h \in Seq(S) /\ Len(h) \in Nat /\ Len(h) <= HistoryMax
         /\ Recent(h, e) \in BoundedSeq(S, HistoryMax)
         /\ Recent(h, e) \in Seq(S)
         /\ Len(Recent(h, e)) = Len(h) + 1 - Shift(h)
         /\ Recent(h, e)[Len(h) + 1 - Shift(h)] = e
         /\ \A i \in 1 .. Len(h) - Shift(h) : Recent(h, e)[i] = h[i + Shift(h)]
<1> DEFINE s == Append(h, e)
           m == IF Len(s) > HistoryMax THEN Len(s) - HistoryMax + 1 ELSE 1
<1>1. /\ h \in Seq(S) /\ Len(h) \in Nat /\ Len(h) <= HistoryMax
      /\ HistoryMax \in Nat \ {0}
  BY BoundedSeqFacts, BoundAssumption, LenProperties
<1>2. /\ s \in Seq(S) /\ Len(s) = Len(h) + 1 /\ s[Len(h) + 1] = e
      /\ \A i \in 1 .. Len(h) : s[i] = h[i]
      /\ \A i \in 1 .. Len(s) : s[i] \in S
  BY <1>1, AppendProperties, ElementOfSeq
<1>3. Recent(h, e) = SubSeq(s, m, Len(s))
  BY DEF Recent
<1> HIDE DEF s
<1>4. m = 1 + Shift(h)
  BY <1>1, <1>2 DEF Shift
<1>5. /\ SubSeq(s, m, Len(s)) \in Seq(S)
      /\ Len(SubSeq(s, m, Len(s))) = Len(s) - m + 1
      /\ \A i \in 1 .. Len(s) - m + 1 : SubSeq(s, m, Len(s))[i] = s[m + i - 1]
  <2>1. m \in Int /\ Len(s) \in Int /\ m <= Len(s) /\ m >= 1
    BY <1>1, <1>2, <1>4 DEF Shift
  <2>2. \A i \in m .. Len(s) : s[i] \in S
    BY <1>2, <2>1
  <2> HIDE DEF m
  <2> QED
    BY <2>1, <2>2, SubSeqProperties
<1> HIDE DEF m
<1> DEFINE k == Shift(h)
<1>6. k \in {0, 1} /\ m = 1 + k /\ (k = 0 => Len(h) < HistoryMax)
  BY <1>4 DEF Shift
<1> HIDE DEF k
<1>7. /\ Len(Recent(h, e)) = Len(h) + 1 - k
      /\ \A i \in 1 .. Len(h) + 1 - k : Recent(h, e)[i] = s[i + k]
  <2>1. Len(s) - m + 1 = Len(h) + 1 - k
    BY <1>1, <1>2, <1>6
  <2>2. \A i \in 1 .. Len(h) + 1 - k : m + i - 1 = i + k
    BY <1>1, <1>6
  <2> QED
    BY <1>3, <1>5, <2>1, <2>2
<1>8. /\ Recent(h, e)[Len(h) + 1 - k] = e
      /\ \A i \in 1 .. Len(h) - k : Recent(h, e)[i] = h[i + k]
  <2>1. Len(h) + 1 - k \in 1 .. Len(h) + 1 - k
    BY <1>1, <1>6 DEF Shift, k
  <2>2. (Len(h) + 1 - k) + k = Len(h) + 1
    BY <1>1, <1>6
  <2>3. \A i \in 1 .. Len(h) - k : i \in 1 .. Len(h) + 1 - k /\ i + k \in 1 .. Len(h)
    BY <1>1, <1>6
  <2> QED
    BY <1>2, <1>7, <2>1, <2>2, <2>3
<1>9. Len(Recent(h, e)) <= HistoryMax
  BY <1>1, <1>6, <1>7
<1>10. Recent(h, e) \in BoundedSeq(S, HistoryMax)
  BY <1>1, <1>3, <1>5, <1>9, BoundedSeqFacts
<1> QED
  BY <1>1, <1>3, <1>5, <1>7, <1>8, <1>10 DEF k

(* The two windows that are kept side by side. *)
LEMMA CallsShift ==
  ASSUME NEW h \in BoundedSeq(Call, HistoryMax), NEW c \in Call
  PROVE  /\ Len(h) \in Nat /\ DOMAIN h = 1 .. Len(h)
         /\ Recent(h, c) \in BoundedSeq(Call, HistoryMax)
         /\ Len(Recent(h, c)) = Len(h) + 1 - Shift(h)
         /\ DOMAIN Recent(h, c) = 1 .. Len(h) + 1 - Shift(h)
         /\ Recent(h, c)[Len(h) + 1 - Shift(h)] = c
         /\ \A i \in 1 .. Len(h) - Shift(h) : Recent(h, c)[i] = h[i + Shift(h)]
<1>1. /\ Len(h) \in Nat /\ h \in Seq(Call) /\ Recent(h, c) \in Seq(Call)
      /\ Len(Recent(h, c)) = Len(h) + 1 - Shift(h)
      /\ Recent(h, c) \in BoundedSeq(Call, HistoryMax)
  BY RecentFacts
<1>2. DOMAIN h = 1 .. Len(h) /\ DOMAIN Recent(h, c) = 1 .. Len(Recent(h, c))
  BY <1>1, LenProperties
<1>3. /\ Recent(h, c)[Len(h) + 1 - Shift(h)] = c
      /\ \A i \in 1 .. Len(h) - Shift(h) : Recent(h, c)[i] = h[i + Shift(h)]
  BY RecentFacts
<1> QED
  BY <1>1, <1>2, <1>3

(* The same for the verdicts. *)
LEMMA FlagsShift ==
  ASSUME NEW a \in BoundedSeq(BOOLEAN, HistoryMax), NEW b \in BOOLEAN
  PROVE  /\ Recent(a, b) \in BoundedSeq(BOOLEAN, HistoryMax)
         /\ Len(Recent(a, b)) = Len(a) + 1 - Shift(a)
         /\ Recent(a, b)[Len(a) + 1 - Shift(a)] = b
         /\ \A i \in 1 .. Len(a) - Shift(a) : Recent(a, b)[i] = a[i + Shift(a)]
  BY RecentFacts

(* The entries of the window where c passed. *)
Passed(h, a, c) == {i \in DOMAIN h : h[i] = c /\ a[i]}

(* A new entry that is not a pass of d adds nothing to the passes of d. *)
LEMMA PassedShift ==
  ASSUME NEW h \in BoundedSeq(Call, HistoryMax),
         NEW a \in BoundedSeq(BOOLEAN, HistoryMax), Len(a) = Len(h),
         NEW c \in Call, NEW b \in BOOLEAN, NEW d \in Call, c # d \/ ~b
  PROVE  /\ IsFiniteSet(Passed(h, a, d))
         /\ IsFiniteSet(Passed(Recent(h, c), Recent(a, b), d))
         /\ Cardinality(Passed(Recent(h, c), Recent(a, b), d))
              <= Cardinality(Passed(h, a, d))
<1> DEFINE N == Passed(Recent(h, c), Recent(a, b), d)
           O == Passed(h, a, d)
           f == [i \in N |-> i + Shift(h)]
<1>1. /\ Shift(a) = Shift(h) /\ Shift(h) \in {0, 1} /\ Len(h) \in Nat
      /\ DOMAIN h = 1 .. Len(h)
      /\ DOMAIN Recent(h, c) = 1 .. Len(h) + 1 - Shift(h)
      /\ Recent(h, c)[Len(h) + 1 - Shift(h)] = c /\ Recent(a, b)[Len(h) + 1 - Shift(h)] = b
      /\ \A i \in 1 .. Len(h) - Shift(h) :
           Recent(h, c)[i] = h[i + Shift(h)] /\ Recent(a, b)[i] = a[i + Shift(h)]
  <2>1. Shift(a) = Shift(h) /\ Shift(h) \in {0, 1}
    BY DEF Shift
  <2>2. /\ Recent(a, b)[Len(h) + 1 - Shift(h)] = b
        /\ \A i \in 1 .. Len(h) - Shift(h) : Recent(a, b)[i] = a[i + Shift(h)]
    BY <2>1, FlagsShift
  <2>3. /\ Len(h) \in Nat /\ DOMAIN h = 1 .. Len(h)
        /\ DOMAIN Recent(h, c) = 1 .. Len(h) + 1 - Shift(h)
        /\ Recent(h, c)[Len(h) + 1 - Shift(h)] = c
    BY CallsShift
  <2>4. \A i \in 1 .. Len(h) - Shift(h) : Recent(h, c)[i] = h[i + Shift(h)]
    BY CallsShift
  <2> QED
    BY <2>1, <2>2, <2>3, <2>4
<1>2. ASSUME NEW i \in N
      PROVE  i \in 1 .. Len(h) - Shift(h) /\ i + Shift(h) \in O
  <2>1. i \in 1 .. Len(h) + 1 - Shift(h) /\ Recent(h, c)[i] = d /\ Recent(a, b)[i]
    BY <1>1 DEF Passed
  <2>2. i # Len(h) + 1 - Shift(h)
    BY <1>1, <2>1
  <2>3. i \in 1 .. Len(h) - Shift(h) /\ i + Shift(h) \in 1 .. Len(h)
    BY <1>1, <2>1, <2>2
  <2> QED
    BY <1>1, <2>1, <2>3 DEF Passed
<1>3. IsFiniteSet(O)
  <2>1. IsFiniteSet(1 .. Len(h)) /\ O \in SUBSET (1 .. Len(h))
    BY <1>1, FS_Interval DEF Passed
  <2> QED
    BY <2>1, FS_Subset
<1>4. f \in Injection(N, O)
  <2>1. f \in [N -> O]
    BY <1>2
  <2>2. \A i, j \in N : f[i] = f[j] => i = j
    BY <1>1, <1>2
  <2> QED
    BY <2>1, <2>2, Fun_IsInj
<1> QED
  BY <1>3, <1>4, FS_Injection

-----------------------------------------------------------------------------
(* The inductive invariant. *)

(* The shape of the state, and what executeTool knows of a call from how   *)
(* far it got: only the previewing tools preview, and only a call that     *)
(* named a file is recorded; a question or an interrupt leaves no call.    *)
Shape ==
    /\ TypeOK
    /\ paused => pc = "idle"
    /\ grounding => groundingIters <= GroundingMax
    /\ pc = "preview" => call.tool \in FileTool
    /\ pc = "record" => call.tool \in Writers \cup {"file_read"}

(* What the assumption about calls says of one of them.                    *)
LEMMA CallFacts ==
  ASSUME NEW c \in Call
  PROVE  /\ c # NoCall /\ c.tool \in Tool /\ AlwaysKey(c) \in Tool \X {""}
         /\ c.tool \in Writers \cup {"file_read"} => c.file \in File
         /\ Checked(c) => c.file \in File
         /\ FileTool \subseteq Writers
  BY CallAssumption DEF Tool, AlwaysKey, Checked, EditLike, FileTool, Writers

(* The bounds are numbers, and so are the contents counted so far.         *)
LEMMA Numbers ==
  /\ Threshold \in Nat /\ Threshold > 0 /\ HistoryMax \in Nat /\ HistoryMax > 0
  /\ MaxVersions \in Nat /\ MaxStamps \in Nat /\ GroundingMax \in Nat
  /\ TypeOK => versions \in Nat /\ versions \in 1 .. MaxVersions
                /\ groundingIters \in Nat /\ groundingIters <= GroundingMax + 1
<1>1. /\ Threshold \in Nat /\ Threshold > 0 /\ HistoryMax \in Nat /\ HistoryMax > 0
      /\ MaxVersions \in Nat /\ MaxStamps \in Nat /\ GroundingMax \in Nat
  BY BoundAssumption
<1>2. TypeOK => versions \in 1 .. MaxVersions /\ groundingIters \in 0 .. GroundingMax + 1
  BY DEF TypeOK
<1> QED
  BY <1>1, <1>2

(* A call that is remembered as passed was not a loop, so the window never *)
(* holds as many passes of a call as the threshold.                        *)
LEMMA RememberFacts ==
  ASSUME TypeOK, LoopBounded, NEW c \in Call, NEW b \in BOOLEAN,
         b => ~Looping(c), Remember(c, b)
  PROVE  /\ history' \in BoundedSeq(Call, HistoryMax)
         /\ admitted' \in BoundedSeq(BOOLEAN, HistoryMax)
         /\ Len(admitted') = Len(history')
         /\ LoopBounded'
<1>1. /\ history \in BoundedSeq(Call, HistoryMax)
      /\ admitted \in BoundedSeq(BOOLEAN, HistoryMax)
      /\ Len(admitted) = Len(history) /\ Threshold \in Nat
  BY BoundAssumption DEF TypeOK
<1>2. history' = Recent(history, c) /\ admitted' = Recent(admitted, b)
  BY DEF Remember
<1>3. /\ history' \in BoundedSeq(Call, HistoryMax)
      /\ Len(history') = Len(history) + 1 - Shift(history)
      /\ DOMAIN history' = 1 .. Len(history) + 1 - Shift(history)
      /\ Len(history) \in Nat /\ Shift(history) \in {0, 1}
  BY <1>1, <1>2, CallsShift DEF Shift
<1>4. /\ admitted' \in BoundedSeq(BOOLEAN, HistoryMax)
      /\ Len(admitted') = Len(admitted) + 1 - Shift(admitted)
  BY <1>1, <1>2, FlagsShift
<1>5. Shift(admitted) = Shift(history)
  BY <1>1 DEF Shift
<1>6. ASSUME NEW d \in Call
      PROVE  Cardinality(Passed(history', admitted', d)) < Threshold
  <2>1. CASE c # d \/ ~b
    <3>1. Cardinality(Passed(history, admitted, d)) < Threshold
      BY DEF LoopBounded, Passed
    <3>2. /\ IsFiniteSet(Passed(history, admitted, d))
          /\ IsFiniteSet(Passed(history', admitted', d))
          /\ Cardinality(Passed(history', admitted', d))
               <= Cardinality(Passed(history, admitted, d))
      BY <1>1, <1>2, <2>1, PassedShift
    <3>3. /\ Cardinality(Passed(history, admitted, d)) \in Nat
          /\ Cardinality(Passed(history', admitted', d)) \in Nat
      BY <3>2, FS_CardinalityType
    <3> QED
      BY <1>1, <3>1, <3>2, <3>3
  <2>2. CASE c = d /\ b
    <3> DEFINE R == {i \in DOMAIN history' : history'[i] = c}
    <3>1. ~(Cardinality(R) >= Threshold)
      BY <1>2, <2>2 DEF Looping, Repeats
    <3>2. IsFiniteSet(1 .. Len(history) + 1 - Shift(history))
      BY <1>3, FS_Interval
    <3>3. IsFiniteSet(R)
      BY <1>3, <3>2, FS_Subset
    <3>4. Passed(history', admitted', d) \in SUBSET R
      BY <2>2 DEF Passed
    <3> HIDE DEF R
    <3>5. /\ IsFiniteSet(Passed(history', admitted', d))
          /\ Cardinality(Passed(history', admitted', d)) <= Cardinality(R)
      BY <3>3, <3>4, FS_Subset
    <3>6. /\ Cardinality(R) \in Nat
          /\ Cardinality(Passed(history', admitted', d)) \in Nat
      BY <3>3, <3>5, FS_CardinalityType
    <3> QED
      BY <1>1, <3>1, <3>5, <3>6
  <2> QED
    BY <2>1, <2>2
<1>7. LoopBounded'
  BY <1>6 DEF LoopBounded, Passed
<1> QED
  BY <1>1, <1>3, <1>4, <1>5, <1>7

(* A write leaves the file with the next content, or without one, and its  *)
(* stamp does not go back.                                                 *)
LEMMA WriteFacts ==
  ASSUME TypeOK, NEW c \in Call, c.tool \in Writers, Write(c)
  PROVE  /\ versions' = versions + 1 /\ versions' \in 1 .. MaxVersions
         /\ disk' \in [File -> [sha : 0 .. versions', stamp : 1 .. MaxStamps]]
         /\ known' \in [File -> 0 .. versions']
         /\ refused' = refused \ {c.file}
         /\ wrote' \subseteq File
         /\ wrote' = IF c.tool \in FileTool THEN wrote \cup {c.file} ELSE wrote
         /\ disk'[c.file].sha \in {0, versions + 1}
         /\ disk'[c.file].stamp >= disk[c.file].stamp
         /\ \A f \in File \ {c.file} : disk'[f] = disk[f]
<1>1. c.file \in File
  BY CallFacts
<1>2. /\ versions \in Nat /\ versions < MaxVersions /\ versions' = versions + 1
      /\ versions' \in 1 .. MaxVersions /\ MaxStamps \in Nat
  <2>1. MaxVersions \in Nat /\ MaxStamps \in Nat
    BY BoundAssumption
  <2>2. versions \in 1 .. MaxVersions
    BY DEF TypeOK
  <2>3. versions < MaxVersions /\ versions' = versions + 1
    BY DEF Write
  <2> QED
    BY <2>1, <2>2, <2>3
<1>3. PICK d \in Written(c, versions + 1) :
         /\ disk' = [disk EXCEPT ![c.file] = d]
         /\ known' = [known EXCEPT ![c.file] = d.sha]
  BY DEF Write
<1>4. disk[c.file] \in [sha : 0 .. versions, stamp : 1 .. MaxStamps]
  BY <1>1 DEF TypeOK
<1>5. /\ d \in [sha : 0 .. versions', stamp : 1 .. MaxStamps]
      /\ d.sha \in {0, versions + 1} /\ d.stamp >= disk[c.file].stamp
  <2>1. CASE c.kind = "delete"
    <3>1. d = [disk[c.file] EXCEPT !.sha = 0]
      BY <2>1 DEF Written
    <3> QED
      BY <1>2, <1>4, <3>1
  <2>2. CASE c.kind # "delete"
    <3>1. PICK n \in disk[c.file].stamp .. MaxStamps :
             d = [sha |-> versions + 1, stamp |-> n]
      BY <2>2 DEF Written
    <3> QED
      BY <1>2, <1>4, <3>1
  <2> QED
    BY <2>1, <2>2
<1>a. 0 .. versions \subseteq 0 .. versions'
  BY <1>2
<1>6. disk' \in [File -> [sha : 0 .. versions', stamp : 1 .. MaxStamps]]
  <2>1. /\ disk \in [File -> [sha : 0 .. versions, stamp : 1 .. MaxStamps]]
        /\ [sha : 0 .. versions, stamp : 1 .. MaxStamps]
             \subseteq [sha : 0 .. versions', stamp : 1 .. MaxStamps]
    BY <1>a DEF TypeOK
  <2> QED
    BY <1>3, <1>5, <2>1
<1>7. known' \in [File -> 0 .. versions']
  <2>1. known \in [File -> 0 .. versions] 
    BY DEF TypeOK
  <2>2. d.sha \in 0 .. versions'
    BY <1>5
  <2> QED
    BY <1>a, <1>3, <2>1, <2>2
<1>8. /\ disk'[c.file] = d /\ \A f \in File \ {c.file} : disk'[f] = disk[f]
  BY <1>1, <1>3 DEF TypeOK
<1>9. /\ refused' = refused \ {c.file} /\ wrote' \subseteq File
      /\ wrote' = IF c.tool \in FileTool THEN wrote \cup {c.file} ELSE wrote
  BY <1>1 DEF Write, TypeOK
<1> QED
  BY <1>2, <1>5, <1>6, <1>7, <1>8, <1>9

(* Everything the runs check of a state.                                   *)
Kept == Shape /\ LoopBounded /\ GateHolds /\ GroundedFirst

(* The checks before a call: what is remembered, what is let through.      *)
LEMMA DispatchStep ==
  ASSUME Kept, NEW c \in Call, Dispatch(c)
  PROVE  Kept'
<1> USE DEF Kept, Shape
<1>a. pc = "idle" /\ call = NoCall /\ ~paused
  BY DEF Dispatch, TypeOK
<1>1. CASE Refuse(c)
  <2>1. /\ history' \in BoundedSeq(Call, HistoryMax)
        /\ admitted' \in BoundedSeq(BOOLEAN, HistoryMax)
        /\ Len(admitted') = Len(history') /\ LoopBounded'
    BY <1>1, RememberFacts DEF Refuse
  <2>2. UNCHANGED <<disk, memory, policy, versions, call, pc, forced, consent,
                    tracker, grounding, groundingIters, filesChanged, paused,
                    known, refused, wrote>>
    BY <1>1 DEF Refuse, current
  <2> QED
    BY <2>1, <2>2 DEF TypeOK, GateHolds, GroundedFirst
<1>2. CASE RefuseStale(c)
  <2>1. /\ history' \in BoundedSeq(Call, HistoryMax)
        /\ admitted' \in BoundedSeq(BOOLEAN, HistoryMax)
        /\ Len(admitted') = Len(history') /\ LoopBounded'
    BY <1>2, RememberFacts DEF RefuseStale, Allowed
  <2>2. refused' \subseteq File
    BY <1>2, CallFacts DEF RefuseStale, TypeOK
  <2>3. UNCHANGED <<disk, memory, policy, versions, call, pc, forced, consent,
                    tracker, grounding, groundingIters, filesChanged, paused,
                    known, wrote>>
    BY <1>2 DEF RefuseStale, current
  <2> QED
    BY <2>1, <2>2, <2>3 DEF TypeOK, GateHolds, GroundedFirst
<1>3. CASE Report(c)
  <2>1. /\ history' \in BoundedSeq(Call, HistoryMax)
        /\ admitted' \in BoundedSeq(BOOLEAN, HistoryMax)
        /\ Len(admitted') = Len(history') /\ LoopBounded'
    BY <1>3, RememberFacts DEF Report
  <2>2. UNCHANGED <<disk, memory, policy, versions, call, pc, forced, consent,
                    tracker, groundingIters, filesChanged, known, refused,
                    wrote>>
    BY <1>3 DEF Report, current
  <2>3. grounding' \in BOOLEAN /\ paused' \in BOOLEAN /\ (grounding' => grounding)
    BY <1>3 DEF Report, TypeOK
  <2> QED
    BY <1>a, <2>1, <2>2, <2>3 DEF TypeOK, GateHolds, GroundedFirst
<1>4. CASE Admit(c)
  <2>1. /\ history' \in BoundedSeq(Call, HistoryMax)
        /\ admitted' \in BoundedSeq(BOOLEAN, HistoryMax)
        /\ Len(admitted') = Len(history') /\ LoopBounded'
    BY <1>4, RememberFacts DEF Admit, Allowed
  <2>2. tracker' \in [File -> [sha : 0 .. versions, stamp : 0 .. MaxStamps]]
    <3>1. tracker \in [File -> [sha : 0 .. versions, stamp : 0 .. MaxStamps]]
      BY DEF TypeOK
    <3>2. CASE tracker' = tracker
      BY <3>1, <3>2
    <3>3. CASE Checked(c) /\ tracker' = [tracker EXCEPT ![c.file].stamp = disk[c.file].stamp]
      <4>1. c.file \in File
        BY <3>3, CallFacts
      <4>2. disk[c.file].stamp \in 0 .. MaxStamps
        <5>1. disk[c.file].stamp \in 1 .. MaxStamps /\ MaxStamps \in Nat
          BY <4>1, BoundAssumption DEF TypeOK
        <5> QED
          BY <5>1
      <4>3. [tracker[c.file] EXCEPT !.stamp = disk[c.file].stamp]
              \in [sha : 0 .. versions, stamp : 0 .. MaxStamps]
        BY <3>1, <4>1, <4>2
      <4> QED
        BY <3>1, <3>3, <4>1, <4>3
    <3> QED
      BY <1>4, <3>2, <3>3 DEF Admit, Restamped
  <2>3. /\ UNCHANGED <<disk, memory, policy, versions, grounding,
                       groundingIters, filesChanged, paused, known, refused,
                       wrote>>
        /\ call' = c /\ c # NoCall
        /\ forced' = (policy[c.tool] = "gate") /\ consent' = FALSE
    BY <1>4, CallFacts DEF Admit
  <2>4. /\ pc' \in {"preview", "waiting", "execute"}
        /\ pc' = "preview" => c.tool \in FileTool
        /\ pc' = "execute" => ~NeedsApproval(c)
    BY <1>4 DEF Admit
  <2>5. TypeOK'
    BY <2>1, <2>2, <2>3, <2>4 DEF TypeOK
  <2>6. GateHolds'
    BY <2>3, <2>4 DEF GateHolds, NeedsApproval
  <2>7. grounding => c.tool \notin Writers
    BY <1>4 DEF Admit, Allowed, GroundingAllowed, Writers
  <2>8. GroundedFirst'
    BY <2>3, <2>7 DEF GroundedFirst
  <2> QED
    BY <1>a, <2>1, <2>3, <2>4, <2>5, <2>6, <2>8
<1> QED
  BY <1>1, <1>2, <1>3, <1>4 DEF Dispatch

(* A call that fails or ends leaves the dispatcher idle.                   *)
LEMMA FinishFacts ==
  ASSUME Finish
  PROVE  /\ call' = NoCall /\ pc' = "idle" /\ forced' = FALSE /\ consent' = FALSE
         /\ call'.tool \notin Writers
  BY DEF Finish, NoCall, Writers

(* A write of the call in progress: the gate is open, and what is counted  *)
(* by contents grows with the count.                                       *)
LEMMA WriteStep ==
  ASSUME Kept, call \in Call, call.tool \in Writers, Write(call),
         pc' \in {"waiting", "record"}, UNCHANGED <<call, forced, consent>>,
         pc' = "record" => pc = "execute",
         UNCHANGED <<memory, policy, tracker, history, grounding, groundingIters,
                     paused, admitted>>,
         filesChanged' \in {filesChanged, filesChanged \cup {call.file}},
         ~paused
  PROVE  Kept'
<1> USE DEF Kept, Shape
<1>1. ~grounding
  BY DEF GroundedFirst
<1>2. /\ versions' = versions + 1 /\ versions' \in 1 .. MaxVersions
      /\ disk' \in [File -> [sha : 0 .. versions', stamp : 1 .. MaxStamps]]
      /\ known' \in [File -> 0 .. versions']
      /\ refused' = refused \ {call.file} /\ wrote' \subseteq File
  BY WriteFacts
<1>3. 0 .. versions \subseteq 0 .. versions'
  <2>1. versions \in Nat
    BY Numbers
  <2> QED
    BY <1>2, <2>1
<1>4. tracker' \in [File -> [sha : 0 .. versions', stamp : 0 .. MaxStamps]]
  <2>1. tracker \in [File -> [sha : 0 .. versions, stamp : 0 .. MaxStamps]]
    BY DEF TypeOK
  <2>2. [sha : 0 .. versions, stamp : 0 .. MaxStamps]
          \subseteq [sha : 0 .. versions', stamp : 0 .. MaxStamps]
    BY <1>3
  <2> QED
    BY <2>1, <2>2
<1>5. filesChanged' \subseteq File
  BY CallFacts DEF TypeOK
<1>6. call # NoCall
  BY CallFacts
<1>7. TypeOK'
  BY <1>2, <1>4, <1>5, <1>6 DEF TypeOK
<1>8. LoopBounded'
  BY DEF LoopBounded
<1>9. GateHolds' /\ GroundedFirst'
  BY <1>1 DEF GateHolds, GroundedFirst
<1> QED
  BY <1>1, <1>7, <1>8, <1>9

(* Everything the dispatcher does keeps the invariant.                     *)
LEMMA KeptStep == Kept /\ [Next]_vars => Kept'
<1> SUFFICES ASSUME Kept, [Next]_vars PROVE Kept'
  OBVIOUS
<1> USE DEF Kept, Shape
<1>a. pc # "idle" => call \in Call /\ call # NoCall /\ ~paused
  BY DEF TypeOK
<1>1. ASSUME NEW c \in Call, Dispatch(c)
      PROVE  Kept'
  BY <1>1, DispatchStep
<1>2. CASE NextIteration
  <2>1. /\ UNCHANGED <<disk, memory, policy, versions, call, pc, forced, consent,
                       tracker, history, filesChanged, paused, known, refused,
                       admitted, wrote>>
        /\ grounding /\ groundingIters' = groundingIters + 1
        /\ grounding' = (groundingIters' <= GroundingMax)
    BY <1>2 DEF NextIteration, current
  <2>2. GroundingMax \in Nat /\ groundingIters \in 0 .. GroundingMax
    BY <2>1, Numbers
  <2>3. groundingIters' \in 0 .. GroundingMax + 1 /\ grounding' \in BOOLEAN
    BY <2>1, <2>2
  <2> QED
    BY <2>1, <2>3 DEF TypeOK, LoopBounded, GateHolds, GroundedFirst
<1>3. ASSUME Finish, UNCHANGED <<disk, memory, policy, versions, run>>
      PROVE  Kept'
  BY <1>3, FinishFacts DEF run, TypeOK, LoopBounded, GateHolds, GroundedFirst
<1>4. CASE Preview
  <2>1. CASE Fail
    BY <1>3, <2>1 DEF Fail
  <2>2. CASE ~Fail
    <3>1. /\ pc' = "waiting" /\ call \in Call /\ call.tool \in Writers
          /\ UNCHANGED <<call, forced, consent, memory, policy, tracker, history,
                         grounding, groundingIters, filesChanged, paused,
                         admitted>>
      BY <1>4, <1>a, <2>2 DEF Preview, FileTool, Writers
    <3>2. CASE Write(call)
      BY <1>4, <1>a, <3>1, <3>2, WriteStep DEF Preview
    <3>3. CASE UNCHANGED <<disk, versions, known, refused, wrote>>
      BY <1>4, <1>a, <3>1, <3>3 DEF Preview, TypeOK, LoopBounded, GateHolds, GroundedFirst
    <3> QED
      BY <1>4, <2>2, <3>2, <3>3 DEF Preview
  <2> QED
    BY <2>1, <2>2
<1>5. ASSUME NEW a \in Answers, Answer(a)
      PROVE  Kept'
  <2>1. /\ pc = "waiting" /\ call \in Call /\ call # NoCall /\ ~paused
        /\ UNCHANGED <<disk, policy, versions, tracker, history, grounding,
                       groundingIters, known, refused, admitted, wrote>>
    BY <1>5, <1>a DEF Answer
  <2>2. CASE Approve(a = "yes_always")
    <3>1. /\ consent' = TRUE /\ pc' \in {"record", "execute"}
          /\ pc' = "record" => call.tool \in FileTool
          /\ UNCHANGED <<call, forced, paused>>
      BY <2>2 DEF Approve
    <3>2. memory' \subseteq Tool \X {""} /\ filesChanged' \subseteq File
      BY <2>1, <2>2, CallFacts DEF Approve, TypeOK
    <3> QED
      BY <2>1, <3>1, <3>2, CallFacts
         DEF TypeOK, LoopBounded, GateHolds, GroundedFirst
  <2>3. CASE Reject(a = "interrupted")
    <3>1. /\ Finish /\ paused' \in BOOLEAN /\ UNCHANGED <<memory, filesChanged>>
      BY <2>3 DEF Reject
    <3> QED
      BY <2>1, <3>1, FinishFacts
         DEF TypeOK, LoopBounded, GateHolds, GroundedFirst
  <2> QED
    BY <1>5, <2>2, <2>3 DEF Answer
<1>6. CASE Execute
  <2>1. CASE Fail
    BY <1>3, <2>1 DEF Fail
  <2>2. CASE /\ call.tool \in Writers /\ Write(call) /\ pc' = "record"
             /\ filesChanged' = IF consent /\ call.tool \in FileTool
                  THEN filesChanged \cup {call.file} ELSE filesChanged
             /\ UNCHANGED <<call, forced, consent, memory, policy, tracker, history,
                            grounding, groundingIters, paused, admitted>>
    BY <1>6, <1>a, <2>2, WriteStep DEF Execute
  <2>3. CASE /\ call.tool = "file_read" /\ disk[call.file].sha # 0
             /\ pc' = "record"
             /\ known' = [known EXCEPT ![call.file] = disk[call.file].sha]
             /\ refused' = refused \ {call.file}
             /\ UNCHANGED <<call, forced, consent, disk, memory, policy, versions,
                            tracker, history, grounding, groundingIters,
                            filesChanged, paused, admitted, wrote>>
    <3>1. pc = "execute" /\ call \in Call /\ call # NoCall /\ call.file \in File
      BY <1>6, <1>a, <2>3, CallFacts DEF Execute
    <3>2. known' \in [File -> 0 .. versions] /\ refused' \subseteq File
      BY <2>3, <3>1 DEF TypeOK
    <3> QED
      BY <1>a, <2>3, <3>1, <3>2 DEF TypeOK, LoopBounded, GateHolds, GroundedFirst
  <2>4. CASE /\ Finish
             /\ UNCHANGED <<disk, memory, policy, versions, tracker, history,
                            grounding, groundingIters, filesChanged, paused,
                            known, refused, admitted, wrote>>
    BY <1>3, <2>4 DEF run
  <2> QED
    BY <1>6, <2>1, <2>2, <2>3, <2>4 DEF Execute, run
<1>7. CASE Record
  <2>1. /\ Finish /\ call \in Call /\ call.file \in File /\ ~paused
        /\ UNCHANGED <<disk, memory, policy, versions, history, grounding,
                       groundingIters, filesChanged, paused, known, refused,
                       admitted, wrote>>
        /\ tracker' = Recorded(call)
    BY <1>7, <1>a, CallFacts DEF Record
  <2>2. tracker' \in [File -> [sha : 0 .. versions, stamp : 0 .. MaxStamps]]
    <3>1. tracker \in [File -> [sha : 0 .. versions, stamp : 0 .. MaxStamps]]
      BY DEF TypeOK
    <3>2. versions \in Nat /\ MaxStamps \in Nat
      BY Numbers
    <3>3. Unread \in [sha : 0 .. versions, stamp : 0 .. MaxStamps]
      BY <3>2 DEF Unread
    <3>4. disk[call.file] \in [sha : 0 .. versions, stamp : 0 .. MaxStamps]
      <4>1. disk[call.file] \in [sha : 0 .. versions, stamp : 1 .. MaxStamps]
        BY <2>1 DEF TypeOK
      <4> QED
        BY <3>2, <4>1
    <3> QED
      BY <2>1, <3>1, <3>3, <3>4 DEF Recorded
  <2> QED
    BY <2>1, <2>2, FinishFacts DEF TypeOK, LoopBounded, GateHolds, GroundedFirst
<1>8. CASE Resume
  <2>1. /\ paused /\ pc = "idle" /\ call = NoCall
        /\ UNCHANGED <<disk, memory, policy, versions, call, pc, forced, consent>>
        /\ tracker' = Untracked /\ history' = <<>> /\ admitted' = <<>>
        /\ grounding' = Enforced /\ groundingIters' = 0 /\ filesChanged' = {}
        /\ paused' = FALSE /\ known' = [f \in File |-> 0] /\ refused' = {}
        /\ wrote' = {}
    BY <1>8 DEF Resume, TypeOK, current
  <2>2. /\ versions \in Nat /\ MaxStamps \in Nat /\ HistoryMax \in Nat
        /\ GroundingMax \in Nat /\ Threshold \in Nat /\ Threshold > 0
    BY Numbers
  <2>3. /\ <<>> \in BoundedSeq(Call, HistoryMax)
        /\ <<>> \in BoundedSeq(BOOLEAN, HistoryMax)
    <3>1. /\ <<>> \in [1 .. 0 -> Call] /\ <<>> \in [1 .. 0 -> BOOLEAN]
          /\ 0 \in 0 .. HistoryMax
      BY <2>2
    <3> QED
      BY <3>1 DEF BoundedSeq, SeqOf
  <2>4. tracker' \in [File -> [sha : 0 .. versions, stamp : 0 .. MaxStamps]]
    BY <2>1, <2>2 DEF Untracked, Unread
  <2>5. LoopBounded'
    <3>1. ASSUME NEW c \in Call
          PROVE  {i \in DOMAIN history' : history'[i] = c /\ admitted'[i]} = {}
      BY <2>1
    <3> QED
      BY <2>2, <3>1, FS_EmptySet DEF LoopBounded
  <2>6. TypeOK'
    <3>1. groundingIters' \in 0 .. GroundingMax + 1 /\ grounding' \in BOOLEAN
      BY <2>1, <2>2, BoundAssumption
    <3>2. known' \in [File -> 0 .. versions']
      BY <2>1, <2>2
    <3>3. Len(admitted') = Len(history')
      BY <2>1
    <3> QED
      BY <2>1, <2>3, <2>4, <3>1, <3>2, <3>3 DEF TypeOK
  <2>7. GateHolds'
    BY <2>1 DEF GateHolds
  <2>8. GroundedFirst'
    BY <2>1 DEF GroundedFirst, NoCall, Writers
  <2> QED
    BY <2>1, <2>2, <2>5, <2>6, <2>7, <2>8
<1>9. ASSUME disk' \in [File -> [sha : 0 .. versions', stamp : 1 .. MaxStamps]],
             versions' \in {versions, versions + 1}, versions' \in 1 .. MaxVersions,
             UNCHANGED <<memory, policy, run, current>>
      PROVE  Kept'
  <2>1. UNCHANGED <<memory, policy, tracker, history, grounding, groundingIters,
                    filesChanged, paused, known, refused, admitted, wrote, call,
                    pc, forced, consent>>
    BY <1>9 DEF run, current
  <2>2. 0 .. versions \subseteq 0 .. versions'
    <3>1. versions \in Nat
      BY Numbers
    <3> QED
      BY <1>9, <3>1
  <2>3. tracker' \in [File -> [sha : 0 .. versions', stamp : 0 .. MaxStamps]]
    <3>1. tracker \in [File -> [sha : 0 .. versions, stamp : 0 .. MaxStamps]]
      BY DEF TypeOK
    <3>2. [sha : 0 .. versions, stamp : 0 .. MaxStamps]
            \subseteq [sha : 0 .. versions', stamp : 0 .. MaxStamps]
      BY <2>2
    <3> QED
      BY <2>1, <3>1, <3>2
  <2>4. known' \in [File -> 0 .. versions']
    <3>1. known \in [File -> 0 .. versions]
      BY DEF TypeOK
    <3> QED
      BY <2>1, <2>2, <3>1
  <2>5. TypeOK'
    BY <1>9, <2>1, <2>3, <2>4 DEF TypeOK
  <2> QED
    BY <2>1, <2>5 DEF LoopBounded, GateHolds, GroundedFirst
<1>10. ASSUME NEW f \in File, ExternalWrite(f)
       PROVE  Kept'
  <2>1. /\ versions \in Nat /\ versions' = versions + 1 /\ versions' \in 1 .. MaxVersions
    <3>1. versions \in 1 .. MaxVersions /\ MaxVersions \in Nat
      BY BoundAssumption DEF TypeOK
    <3> QED
      BY <1>10, <3>1 DEF ExternalWrite
  <2>2. PICK s \in disk[f].stamp .. MaxStamps, gone \in BOOLEAN :
          disk' = [disk EXCEPT ![f] = [sha |-> IF gone THEN 0 ELSE versions + 1,
                                       stamp |-> s]]
    BY <1>10 DEF ExternalWrite
  <2>3. /\ disk \in [File -> [sha : 0 .. versions, stamp : 1 .. MaxStamps]]
        /\ MaxStamps \in Nat
    BY BoundAssumption DEF TypeOK
  <2>4. [sha |-> IF gone THEN 0 ELSE versions + 1, stamp |-> s]
          \in [sha : 0 .. versions', stamp : 1 .. MaxStamps]
    BY <2>1, <2>2, <2>3
  <2>5. [sha : 0 .. versions, stamp : 1 .. MaxStamps]
          \subseteq [sha : 0 .. versions', stamp : 1 .. MaxStamps]
    BY <2>1
  <2>6. disk' \in [File -> [sha : 0 .. versions', stamp : 1 .. MaxStamps]]
    BY <2>2, <2>3, <2>4, <2>5
  <2> QED
    BY <1>9, <1>10, <2>1, <2>6 DEF ExternalWrite
<1>11. ASSUME NEW f \in File, Touch(f)
       PROVE  Kept'
  <2>1. /\ disk \in [File -> [sha : 0 .. versions, stamp : 1 .. MaxStamps]]
        /\ MaxStamps \in Nat /\ versions \in 1 .. MaxVersions
    BY BoundAssumption DEF TypeOK
  <2>2. /\ disk[f].stamp < MaxStamps /\ versions' = versions
        /\ disk' = [disk EXCEPT ![f].stamp = disk[f].stamp + 1]
    BY <1>11 DEF Touch
  <2>3. [disk[f] EXCEPT !.stamp = disk[f].stamp + 1]
          \in [sha : 0 .. versions, stamp : 1 .. MaxStamps]
    BY <2>1, <2>2
  <2>4. disk' \in [File -> [sha : 0 .. versions', stamp : 1 .. MaxStamps]]
    BY <2>1, <2>2, <2>3
  <2> QED
    BY <1>9, <1>11, <2>1, <2>2, <2>4 DEF Touch
<1>12. ASSUME NEW q \in Policies, SetApprovalPolicy(q)
       PROVE  Kept'
  <2>1. /\ policy' \in Policies
        /\ UNCHANGED <<disk, memory, versions, tracker, history, grounding,
                       groundingIters, filesChanged, paused, known, refused,
                       admitted, wrote, call, pc, forced, consent>>
    BY <1>12 DEF SetApprovalPolicy, run, current
  <2> QED
    BY <2>1 DEF TypeOK, LoopBounded, GateHolds, GroundedFirst
<1>13. CASE UNCHANGED vars
  BY <1>13 DEF vars, run, current, TypeOK, LoopBounded, GateHolds, GroundedFirst
<1> QED
  BY <1>1, <1>2, <1>4, <1>5, <1>6, <1>7, <1>8, <1>10, <1>11, <1>12, <1>13
     DEF Next

(* Every state of the dispatcher satisfies the invariant.                  *)
LEMMA AlwaysKept == Spec => []Kept
<1>1. Init => Kept
  <2> SUFFICES ASSUME Init PROVE Kept
    OBVIOUS
  <2>1. /\ disk = [f \in File |-> [sha |-> 1, stamp |-> 1]]
        /\ tracker = [f \in File |-> Unread] /\ known = [f \in File |-> 0]
        /\ history = <<>> /\ admitted = <<>> /\ memory = {} /\ policy \in Policies
        /\ versions = 1 /\ grounding = Enforced /\ groundingIters = 0
        /\ filesChanged = {} /\ refused = {} /\ wrote = {} /\ paused = FALSE
        /\ call = NoCall /\ pc = "idle" /\ forced = FALSE /\ consent = FALSE
    BY DEF Init, Untracked
  <2>2. 1 \in 1 .. MaxVersions /\ 1 \in 1 .. MaxStamps /\ 0 \in 0 .. MaxStamps
    BY BoundAssumption
  <2>3. groundingIters \in 0 .. GroundingMax + 1 /\ grounding \in BOOLEAN
    BY <2>1, BoundAssumption
  <2>4. /\ disk \in [File -> [sha : 0 .. versions, stamp : 1 .. MaxStamps]]
        /\ tracker \in [File -> [sha : 0 .. versions, stamp : 0 .. MaxStamps]]
        /\ known \in [File -> 0 .. versions]
    BY <2>1, <2>2 DEF Unread
  <2>5. /\ <<>> \in BoundedSeq(Call, HistoryMax)
        /\ <<>> \in BoundedSeq(BOOLEAN, HistoryMax)
    <3>1. /\ <<>> \in [1 .. 0 -> Call] /\ <<>> \in [1 .. 0 -> BOOLEAN]
          /\ 0 \in 0 .. HistoryMax
      BY Numbers
    <3> QED
      BY <3>1 DEF BoundedSeq, SeqOf
  <2>6. TypeOK
    BY <2>1, <2>2, <2>3, <2>4, <2>5 DEF TypeOK
  <2>7. LoopBounded
    <3>1. ASSUME NEW c \in Call
          PROVE  {i \in DOMAIN history : history[i] = c /\ admitted[i]} = {}
      BY <2>1
    <3> QED
      BY <3>1, Numbers, FS_EmptySet DEF LoopBounded
  <2>8. GateHolds /\ GroundedFirst
    BY <2>1 DEF GateHolds, GroundedFirst, NoCall, Writers
  <2>9. groundingIters <= GroundingMax
    BY <2>1, Numbers
  <2> QED
    BY <2>1, <2>6, <2>7, <2>8, <2>9 DEF Kept, Shape
<1> QED
  BY <1>1, KeptStep, PTL DEF Spec

(* The bound of loop detection (agentic/orchestrator.go, executeTool): in  *)
(* the remembered window a call never passed as often as the threshold,    *)
(* whatever other calls and refusals came between.                         *)
THEOREM LoopsSafe == Spec => []LoopsBounded
<1>1. Kept => LoopsBounded
  BY DEF Kept, Shape, LoopsBounded
<1> QED
  BY <1>1, AlwaysKept, PTL

(* A call that a policy rule gates runs only after the human approved that *)
(* very call, and nothing changes a file while the grounding gate is       *)
(* closed, however the host changes the policy meanwhile.                  *)
THEOREM GatesSafe == Spec => []GatesHold
<1>1. Kept => GatesHold
  BY DEF Kept, GatesHold
<1> QED
  BY <1>1, AlwaysKept, PTL

(* What a previewing tool shows for approval stays off the disk until the  *)
(* human said yes (executeWithPreview): the code's edit and file_write     *)
(* implement Previewer, which is what Previews says.                       *)
THEOREM RejectedSafe == Previews /\ Spec => RejectedUntouched
<1>1. Previews /\ Kept /\ [Next]_vars
        => ((pc \in {"preview", "waiting"}) => UNCHANGED known)
  <2> SUFFICES ASSUME Previews, Kept, [Next]_vars, pc \in {"preview", "waiting"}
               PROVE  known' = known
    OBVIOUS
  <2>1. CASE Preview
    BY <2>1 DEF Preview, Fail, run
  <2>2. ~paused
    BY DEF Kept, Shape
  <2>3. ASSUME NEW f \in File, ExternalWrite(f) \/ Touch(f)
        PROVE  known' = known
    BY <2>3 DEF ExternalWrite, Touch, run
  <2>4. ASSUME NEW a \in Answers, Answer(a)
        PROVE  known' = known
    BY <2>4 DEF Answer
  <2>5. ASSUME NEW q \in Policies, SetApprovalPolicy(q)
        PROVE  known' = known
    BY <2>5 DEF SetApprovalPolicy, run
  <2> QED
    BY <2>1, <2>2, <2>3, <2>4, <2>5
       DEF Next, Dispatch, NextIteration, Execute, Record, Resume, vars, run
<1>2. CASE Previews
  BY <1>1, <1>2, AlwaysKept, PTL DEF Spec, RejectedUntouched
<1> QED
  BY <1>2

-----------------------------------------------------------------------------
(* The refusal of stale edits. *)

(* The tracker never runs ahead of the disk, and a file whose edit was     *)
(* refused is known to the tracker with another content and an older       *)
(* stamp; the record of a read or a write is made of a file that is not    *)
(* refused any more.                                                       *)
Behind ==
    /\ \A f \in File : tracker[f].stamp <= disk[f].stamp
    /\ \A f \in refused : /\ tracker[f].sha # 0 /\ tracker[f].sha # disk[f].sha
                          /\ tracker[f].stamp < disk[f].stamp
    /\ pc = "record" => call.file \notin refused
    /\ pc = "waiting" /\ call.tool \in FileTool /\ ~Previews
         => call.file \notin refused

(* Stamps and contents are numbers, and a content the tracker knows has    *)
(* been counted.                                                           *)
LEMMA StampFacts ==
  ASSUME TypeOK, NEW f \in File
  PROVE  /\ disk[f].stamp \in Nat /\ disk[f].sha \in Nat /\ disk[f].sha <= versions
         /\ tracker[f].stamp \in Nat /\ tracker[f].sha \in Nat
         /\ tracker[f].sha <= versions /\ disk[f].stamp > 0
<1>1. versions \in Nat /\ MaxStamps \in Nat
  BY Numbers
<1>2. /\ disk[f].sha \in 0 .. versions /\ disk[f].stamp \in 1 .. MaxStamps
      /\ tracker[f].sha \in 0 .. versions /\ tracker[f].stamp \in 0 .. MaxStamps
  BY DEF TypeOK
<1> QED
  BY <1>1, <1>2

(* A file whose content becomes a new one, or none, and whose stamp does   *)
(* not go back stays behind.                                               *)
LEMMA NewContentStep ==
  ASSUME TypeOK, Behind, NEW g \in File,
         disk'[g].sha \in {0, versions + 1} \/ g \notin refused',
         disk'[g].stamp \in Nat, disk'[g].stamp >= disk[g].stamp,
         \A f \in File \ {g} : disk'[f] = disk[f],
         refused' \subseteq refused, UNCHANGED tracker
  PROVE  /\ \A f \in File : tracker'[f].stamp <= disk'[f].stamp
         /\ \A f \in refused' : /\ tracker'[f].sha # 0
                                /\ tracker'[f].sha # disk'[f].sha
                                /\ tracker'[f].stamp < disk'[f].stamp
<1>1. refused \subseteq File /\ versions \in Nat
  BY Numbers DEF TypeOK
<1>2. ASSUME NEW f \in File
      PROVE  tracker'[f].stamp <= disk'[f].stamp
  BY <1>2, StampFacts DEF Behind
<1>3. ASSUME NEW f \in refused'
      PROVE  /\ tracker'[f].sha # 0 /\ tracker'[f].sha # disk'[f].sha
             /\ tracker'[f].stamp < disk'[f].stamp
  <2>1. /\ f \in File /\ tracker[f].sha # 0 /\ tracker[f].sha # disk[f].sha
        /\ tracker[f].stamp < disk[f].stamp
    BY <1>1 DEF Behind
  <2>2. /\ tracker[f].sha \in Nat /\ tracker[f].sha <= versions
        /\ tracker[f].stamp \in Nat /\ disk[f].stamp \in Nat
    BY <2>1, StampFacts
  <2>3. CASE f = g
    BY <1>1, <2>1, <2>2, <2>3
  <2>4. CASE f # g
    BY <2>1, <2>4
  <2> QED
    BY <2>3, <2>4
<1> QED
  BY <1>2, <1>3

(* Every step leaves the refused files behind.                             *)
LEMMA BehindStep == Kept /\ Kept' /\ Behind /\ [Next]_vars => Behind'
<1> SUFFICES ASSUME Kept, Kept', Behind, [Next]_vars PROVE Behind'
  OBVIOUS
<1> USE DEF Kept, Shape
<1>a. /\ refused \subseteq File /\ versions \in Nat /\ (pc = "idle") = (call = NoCall)
      /\ pc # "idle" => call \in Call /\ ~paused
  BY Numbers DEF TypeOK
<1>b. \A f \in File : disk'[f].stamp \in Nat
  <2>1. disk' \in [File -> [sha : 0 .. versions', stamp : 1 .. MaxStamps]]
    BY DEF TypeOK
  <2>2. \A f \in File : disk'[f].stamp \in 1 .. MaxStamps
    BY <2>1
  <2> QED
    BY <2>2, Numbers
<1>1. ASSUME UNCHANGED <<disk, tracker, refused>>,
             \/ pc' \in {"idle", "execute", "preview"}
             \/ UNCHANGED <<pc, call>>
             \/ pc' = "record" /\ pc = "waiting" /\ call' = call
                /\ call.tool \in FileTool /\ ~Previews
             \/ pc' = "waiting" /\ (Previews \/ call'.tool \notin FileTool)
      PROVE  Behind'
  BY <1>1 DEF Behind
<1>2. ASSUME NEW c \in Call, Dispatch(c)
      PROVE  Behind'
  <2>1. CASE Refuse(c) \/ Report(c)
    BY <1>1, <2>1 DEF Refuse, Report, current
  <2>2. CASE RefuseStale(c)
    <3>1. /\ c.file \in File /\ UNCHANGED <<disk, tracker, pc, call>>
          /\ refused' = IF disk[c.file].sha = 0 THEN refused
                                                ELSE refused \cup {c.file}
          /\ ~Fresh(c.file)
      BY <2>2, CallFacts DEF RefuseStale, current
    <3>2. pc = "idle"
      BY <1>2 DEF Dispatch
    <3>3. disk[c.file].sha # 0 => /\ tracker[c.file].sha # 0
                                 /\ tracker[c.file].sha # disk[c.file].sha
                                 /\ tracker[c.file].stamp < disk[c.file].stamp
      BY <3>1, StampFacts DEF Fresh, Behind
    <3> QED
      BY <3>1, <3>2, <3>3 DEF Behind
  <2>3. CASE Admit(c)
    <3>1. /\ UNCHANGED <<disk, refused>> /\ pc' \notin {"record", "idle"} /\ call' = c
          /\ pc' = "waiting" => c.tool \notin FileTool
          /\ tracker' = Restamped(c)
      BY <2>3 DEF Admit
    <3>2. CASE tracker' = tracker
      BY <1>1, <3>1, <3>2 DEF Behind
    <3>3. CASE /\ Checked(c) /\ disk[c.file].sha = tracker[c.file].sha
               /\ tracker' = [tracker EXCEPT ![c.file].stamp = disk[c.file].stamp]
      <4>1. c.file \in File /\ c.file \notin refused
        BY <3>3, CallFacts DEF Behind
      <4>2. /\ tracker'[c.file].stamp = disk[c.file].stamp
            /\ \A f \in File \ {c.file} : tracker'[f] = tracker[f]
        BY <3>3, <4>1 DEF TypeOK
      <4>3. disk[c.file].stamp <= disk[c.file].stamp
        BY <4>1, StampFacts
      <4> QED
        BY <1>a, <3>1, <4>1, <4>2, <4>3 DEF Behind
    <3> QED
      BY <3>1, <3>2, <3>3 DEF Restamped
  <2> QED
    BY <1>2, <2>1, <2>2, <2>3 DEF Dispatch
<1>3. CASE NextIteration
  BY <1>1, <1>3 DEF NextIteration, current
<1>4. ASSUME call \in Call, call.tool \in Writers, Write(call), UNCHANGED <<tracker, call>>
      PROVE  Behind'
  <2>1. call.file \in File
    BY <1>4, CallFacts
  <2>2. /\ refused' = refused \ {call.file}
        /\ disk'[call.file].stamp >= disk[call.file].stamp
        /\ \A f \in File \ {call.file} : disk'[f] = disk[f]
    BY <1>4, WriteFacts
  <2>3. disk'[call.file].stamp \in Nat
    BY <1>b, <2>1
  <2>4. /\ \A f \in File : tracker'[f].stamp <= disk'[f].stamp
        /\ \A f \in refused' : /\ tracker'[f].sha # 0
                               /\ tracker'[f].sha # disk'[f].sha
                               /\ tracker'[f].stamp < disk'[f].stamp
    BY <1>4, <2>1, <2>2, <2>3, NewContentStep
  <2> QED
    BY <1>4, <2>2, <2>4 DEF Behind
<1>5. ASSUME Finish, UNCHANGED <<disk, tracker, refused>>
      PROVE  Behind'
  BY <1>1, <1>5 DEF Finish
<1>6. CASE Preview
  <2>1. CASE Fail
    BY <1>5, <2>1 DEF Fail, run
  <2>2. CASE ~Fail
    <3>1. /\ call \in Call /\ call.tool \in Writers /\ pc' = "waiting"
          /\ UNCHANGED <<tracker, call>>
          /\ Write(call) \/ (Previews /\ UNCHANGED <<disk, refused>>)
      BY <1>6, <1>a, <2>2 DEF Preview, FileTool, Writers
    <3> QED
      BY <1>1, <1>4, <3>1
  <2> QED
    BY <2>1, <2>2
<1>7. ASSUME NEW a \in Answers, Answer(a)
      PROVE  Behind'
  BY <1>1, <1>7 DEF Answer, Approve, Reject, Finish
<1>8. CASE Execute
  <2>1. call \in Call
    BY <1>8, <1>a DEF Execute
  <2>2. CASE call.tool \in Writers /\ Write(call) /\ UNCHANGED <<tracker, call>>
    BY <1>4, <2>1, <2>2
  <2>3. CASE Finish /\ UNCHANGED <<disk, tracker, refused>>
    BY <1>5, <2>3
  <2>4. CASE /\ refused' = refused \ {call.file} /\ pc' = "record"
             /\ UNCHANGED <<disk, tracker, call>>
    BY <2>4 DEF Behind
  <2> QED
    BY <1>8, <2>2, <2>3, <2>4 DEF Execute, Fail, run
<1>9. CASE Record
  <2>1. /\ Finish /\ call \in Call /\ call.file \in File /\ call.file \notin refused
        /\ UNCHANGED <<disk, refused>> /\ tracker' = Recorded(call)
    BY <1>9, <1>a, CallFacts DEF Record, Behind
  <2>2. /\ tracker'[call.file] \in {tracker[call.file], Unread, disk[call.file]}
        /\ \A f \in File \ {call.file} : tracker'[f] = tracker[f]
    BY <2>1 DEF Recorded, TypeOK
  <2>3. tracker'[call.file].stamp <= disk[call.file].stamp
    BY <2>1, <2>2, StampFacts DEF Unread, Behind
  <2> QED
    BY <1>a, <2>1, <2>2, <2>3 DEF Behind, Finish
<1>10. CASE Resume
  <2>1. /\ tracker' = [f \in File |-> Unread] /\ refused' = {} /\ disk' = disk
        /\ pc' = "idle"
    BY <1>10 DEF Resume, Untracked, current
  <2> QED
    BY <2>1, StampFacts DEF Behind, Unread
<1>11. ASSUME NEW g \in File, ExternalWrite(g) \/ Touch(g)
       PROVE  Behind'
  <2>1. UNCHANGED <<tracker, refused, pc, call>>
    BY <1>11 DEF ExternalWrite, Touch, run, current
  <2>2. /\ disk'[g].stamp \in Nat /\ disk[g].stamp \in Nat
    BY <1>b, StampFacts
  <2>3. CASE ExternalWrite(g)
    <3>1. /\ disk'[g].sha \in {0, versions + 1} /\ disk'[g].stamp >= disk[g].stamp
          /\ \A f \in File \ {g} : disk'[f] = disk[f]
      <4>1. PICK x \in disk[g].stamp .. MaxStamps, gone \in BOOLEAN :
              disk' = [disk EXCEPT ![g] =
                         [sha |-> IF gone THEN 0 ELSE versions + 1, stamp |-> x]]
        BY <2>3 DEF ExternalWrite
      <4>2. x >= disk[g].stamp
        BY <2>2, <4>1, Numbers
      <4> QED
        BY <4>1, <4>2 DEF TypeOK
    <3> QED
      BY <2>1, <2>2, <3>1, NewContentStep DEF Behind
  <2>4. CASE Touch(g)
    <3>1. /\ disk'[g].sha = disk[g].sha /\ disk'[g].stamp = disk[g].stamp + 1
          /\ \A f \in File \ {g} : disk'[f] = disk[f]
      BY <2>4 DEF Touch, TypeOK
    <3> QED
      BY <1>a, <2>1, <2>2, <3>1, StampFacts DEF Behind
  <2> QED
    BY <1>11, <2>3, <2>4
<1>12. ASSUME NEW q \in Policies, SetApprovalPolicy(q)
       PROVE  Behind'
  BY <1>1, <1>12 DEF SetApprovalPolicy, run, current
<1>13. CASE UNCHANGED vars
  BY <1>1, <1>13 DEF vars, run, current
<1> QED
  BY <1>2, <1>3, <1>6, <1>7, <1>8, <1>9, <1>10, <1>11, <1>12, <1>13 DEF Next

(* An edit that was refused because the file had changed stays refused     *)
(* (staleCheck of agentic/orchestrator.go): the file is edited again only  *)
(* after the model has read or replaced it.                                *)
THEOREM RereadSafe == Spec => RereadAfterRefusal
<1>1. Init => Behind
  <2> SUFFICES ASSUME Init PROVE Behind
    OBVIOUS
  <2> QED
    BY DEF Init, Untracked, Unread, Behind
<1>2. Spec => []Behind
  BY <1>1, AlwaysKept, BehindStep, PTL DEF Spec
<1>3. Kept /\ Behind /\ [Next]_vars
        => (/\ pc = "idle" /\ pc' # "idle"
            /\ Checked(call') /\ call'.file \in refused
            => disk[call'.file].sha = tracker[call'.file].sha)
  <2> SUFFICES ASSUME Kept, Behind, [Next]_vars, pc = "idle", pc' # "idle",
                      Checked(call'), call'.file \in refused
               PROVE  FALSE
    OBVIOUS
  <2>1. PICK c \in Call : Dispatch(c)
    BY DEF Next, NextIteration, Preview, Answer, Execute, Record, Resume,
           ExternalWrite, Touch, SetApprovalPolicy, vars, current
  <2>2. Admit(c)
    BY <2>1 DEF Dispatch, Refuse, RefuseStale, Report, current
  <2>3. Fresh(c.file) /\ call' = c
    BY <2>2 DEF Admit
  <2>4. TypeOK /\ c.file \in File
    BY <2>3, CallFacts DEF Kept, Shape
  <2>5. disk[c.file].stamp \in Nat /\ tracker[c.file].stamp \in Nat
    BY <2>4, StampFacts
  <2> QED
    BY <2>3, <2>5 DEF Fresh, Behind
<1> QED
  BY <1>2, <1>3, AlwaysKept, PTL DEF Spec, RereadAfterRefusal

-----------------------------------------------------------------------------
(* The client: pages. *)

(* Flattening joins all.                                                   *)
LEMMA JoinedFacts ==
  ASSUME NEW T, NEW ss \in Seq(Seq(T)), ss # <<>>
  PROVE  /\ Mcp!FlattenSeq(ss) = Joined(ss)[Len(ss)] /\ Len(ss) \in Nat \ {0}
         /\ Joined(ss)[1] = ss[1]
         /\ \A i \in 2 .. Len(ss) : Joined(ss)[i] = Joined(ss)[i - 1] \o ss[i]
<1>1. Len(ss) \in Nat \ {0}
  BY LenProperties, EmptySeq
<1>2. Mcp!FlattenSeq(ss) = Joined(ss)[Len(ss)]
  BY <1>1 DEF Joined, Mcp!FlattenSeq
<1>3. Joined(ss) = [i \in 1 .. Len(ss) |-> IF i = 1 THEN ss[i] ELSE Joined(ss)[i - 1] \o ss[i]]
  BY JoinedExists
<1>4. ASSUME NEW i \in 1 .. Len(ss)
      PROVE  Joined(ss)[i] = IF i = 1 THEN ss[i] ELSE Joined(ss)[i - 1] \o ss[i]
  BY <1>3, Zenon
<1>5. /\ 1 \in 1 .. Len(ss)
      /\ \A i \in 2 .. Len(ss) : i \in 1 .. Len(ss) /\ i # 1
  BY <1>1
<1> QED
  BY <1>1, <1>2, <1>4, <1>5

-----------------------------------------------------------------------------
(* The client: the inductive invariant. *)

Working == {"guard", "send", "sent", "body", "parsed", "notified"}

FlowType ==
    [pc : Working \cup {"idle", "panicked"}, op : {"none", "connect", "call", "list"},
     method : {"none", "initialize", "notify", "call", "list"}, id : Nat, sid : 0 .. 1,
     host : Hosts \cup {Endpoint}, hops : Int, page : Nat, tools : Seq(RemoteTool),
     took : {"none", "own", "other"}, end : {"none", "ok", "failed"}]

AskedType == [requests : Nat, permitted : SUBSET Hosts, due : BOOLEAN, misled : BOOLEAN]

More(k, n) == n < Len(k.pages) \/ k.loops

(* Where a request goes was allowed since it began.                        *)
Routed(f, h, hosts) ==
    /\ f.pc \notin {"idle", "panicked"} => hosts \subseteq h.permitted
    /\ f.pc \in {"guard", "send"} => f.host = Endpoint
    /\ f.pc \in {"send", "sent", "body"} => f.host \in h.permitted

(* What was picked is a response, and the one that was due.                *)
Picked(f, h) ==
    f.pc = "parsed" => /\ f.method # "notify" /\ f.took \in {"own", "other"}
                       /\ h.due => f.took = "own"
                       /\ f.took = "other" => h.misled

(* The pages read so far, and the requests they took.                      *)
Paging(f, h, k) ==
    /\ f.op \in {"connect", "list"} /\ f.page < MaxPages
    /\ h.requests = f.page + (IF f.op = "connect" THEN 3 ELSE 1)
    /\ f.page = 0 => f.tools = <<>>
    /\ f.page # 0 => More(k, f.page)
    /\ f.page # 0 /\ f.page <= Len(k.pages) /\ ~h.misled => f.tools = Joined(k.pages)[f.page]

Underway(f, h, k) ==
    /\ f.end = "none" /\ f.method # "none"
    /\ f.pc = "notified" => f.method = "notify"
    /\ f.method \in {"initialize", "notify"} =>
         /\ f.op = "connect" /\ f.page = 0 /\ f.tools = <<>>
         /\ h.requests = IF f.method = "initialize" THEN 1 ELSE 2
    /\ f.method = "call" => f.op = "call" /\ h.requests = 1
    /\ f.method = "list" => Paging(f, h, k)

(* What a listing returned.                                                *)
Listing(f, h, k) ==
    f.op # "call" /\ f.end = "ok" =>
        /\ Len(f.tools) <= MaxTools
        /\ Len(f.tools) < MaxTools /\ ~h.misled => f.tools = Mcp!FlattenSeq(k.pages)

Local(f, h, hosts, sid, k) ==
    /\ f \in FlowType /\ h \in AskedType /\ h.requests <= MaxPages + 2
    /\ f.pc = "idle" => f.id = 0
    /\ f.pc \in {"sent", "body"} /\ f.method # "initialize" => f.sid = sid
    /\ Routed(f, h, hosts) /\ Picked(f, h) /\ Listing(f, h, k)
    /\ f.pc \in Working => Underway(f, h, k)

Ids ==
    \A c \in Callers :
        /\ flow[c].id <= nextID
        /\ \A d \in Callers : c # d /\ flow[c].id # 0 => flow[c].id # flow[d].id

(* During the handshake the client is nobody else's.                       *)
Shaking(f) == f.pc \in Working /\ f.method = "initialize"

Handshake ==
    /\ nextID = 0 => ~ready /\ \A c \in Callers : flow[c].pc = "idle"
    /\ \A c \in Callers : Shaking(flow[c]) => ~ready /\ \A d \in Callers : d # c => flow[d].pc = "idle"

Sound ==
    /\ catalog \in Catalogs /\ nextID \in Nat /\ ready \in BOOLEAN /\ allowed \subseteq Hosts
    /\ session = server /\ server \in 0 .. 1
    /\ DOMAIN flow = Callers /\ DOMAIN asked = Callers /\ flow = [c \in Callers |-> flow[c]]
    /\ asked = [c \in Callers |-> asked[c]]
    /\ \A c \in Callers : Local(flow[c], asked[c], allowed, server, catalog)
    /\ Ids /\ Handshake

McpSound == Sound /\ Mcp!NamesUnique

-----------------------------------------------------------------------------
(* The client: its steps. *)

(* A step of one goroutine.                                                *)
LEMMA CallerStep ==
  ASSUME Sound, NEW c \in Callers, NEW f, NEW h,
         flow' = [flow EXCEPT ![c] = f], asked' = [asked EXCEPT ![c] = h],
         Local(f, h, allowed, server', catalog), UNCHANGED <<allowed, catalog>>,
         nextID' \in Nat, nextID <= nextID', f.id <= nextID',
         f.id = 0 \/ f.id = flow[c].id \/ nextID < f.id,
         server' = server \/ \A d \in Callers : d # c => flow[d].pc = "idle",
         session' = server', server' \in 0 .. 1,
         \/ nextID = 0 /\ nextID' # 0 /\ UNCHANGED ready
         \/ (Shaking(f) => Shaking(flow[c])) /\ (flow[c].pc \in Working \/ ready),
         ready' = ready \/ (ready' \in BOOLEAN /\ flow[c].pc \in Working /\ ~Shaking(f))
  PROVE  Sound'
<1>1. /\ DOMAIN flow = Callers /\ DOMAIN asked = Callers
      /\ flow'[c] = f /\ asked'[c] = h
      /\ \A d \in Callers : d # c => flow'[d] = flow[d] /\ asked'[d] = asked[d]
      /\ DOMAIN flow' = Callers /\ DOMAIN asked' = Callers
  BY DEF Sound
<1>2. flow' = [d \in Callers |-> flow'[d]] /\ asked' = [d \in Callers |-> asked'[d]]
  BY <1>1
<1>3. ASSUME NEW d \in Callers
      PROVE  Local(flow'[d], asked'[d], allowed, server', catalog)
  <2>1. CASE d = c
    BY <1>1, <2>1
  <2>2. CASE d # c
    <3>1. Local(flow[d], asked[d], allowed, server, catalog)
      BY DEF Sound
    <3>2. server' = server \/ flow[d].pc = "idle"
      BY <2>2
    <3>3. Local(flow[d], asked[d], allowed, server', catalog)
      BY <3>1, <3>2 DEF Local
    <3> QED
      BY <1>1, <2>2, <3>3
  <2> QED
    BY <2>1, <2>2
<1>4. Ids'
  <2>1. \A d \in Callers : flow[d].id \in Nat /\ flow[d].id <= nextID /\ f.id \in Nat /\ nextID \in Nat
    BY DEF Sound, Ids, Local, FlowType
  <2>2. ASSUME NEW d \in Callers PROVE flow'[d].id <= nextID'
    BY <1>1, <2>1
  <2>3. ASSUME NEW d \in Callers, NEW e \in Callers, d # e, flow'[d].id # 0
        PROVE  flow'[d].id # flow'[e].id
    <3>1. flow[d].id # 0 => flow[d].id # flow[e].id
      BY <2>3 DEF Sound, Ids
    <3>2. flow[e].id # 0 => flow[d].id # flow[e].id
      BY <2>3 DEF Sound, Ids
    <3> QED
      BY <1>1, <2>1, <2>3, <3>1, <3>2
  <2> QED
    BY <2>2, <2>3 DEF Ids
<1>5. Handshake'
  <2>1. CASE nextID = 0 /\ nextID' # 0 /\ UNCHANGED ready
    <3>1. ~ready /\ \A d \in Callers : flow[d].pc = "idle"
      BY <2>1 DEF Sound, Handshake
    <3>2. \A d \in Callers : d # c => flow'[d].pc = "idle"
      BY <1>1, <3>1
    <3>3. ASSUME NEW d \in Callers, Shaking(flow'[d])
          PROVE  ~ready' /\ \A e \in Callers : e # d => flow'[e].pc = "idle"
      <4>1. d = c
        BY <3>2, <3>3 DEF Shaking, Working
      <4> QED
        BY <2>1, <3>1, <3>2, <4>1
    <3> QED
      BY <2>1, <3>3 DEF Handshake
  <2>2. CASE (Shaking(f) => Shaking(flow[c])) /\ (flow[c].pc \in Working \/ ready)
    <3>1. flow[c].pc # "idle" \/ ready
      BY <2>2 DEF Working
    <3>2. nextID' # 0
      <4>1. nextID # 0
        BY <3>1 DEF Sound, Handshake
      <4> QED
        BY <4>1 DEF Sound
    <3>3. ASSUME NEW d \in Callers, Shaking(flow'[d])
          PROVE  ~ready' /\ \A e \in Callers : e # d => flow'[e].pc = "idle"
      <4>1. d = c
        <5>1. ASSUME d # c PROVE FALSE
          <6>1. Shaking(flow[d])
            BY <1>1, <3>3, <5>1
          <6> QED
            BY <3>1, <5>1, <6>1 DEF Sound, Handshake
        <5> QED
          BY <5>1
      <4>2. Shaking(f) /\ Shaking(flow[c])
        BY <1>1, <2>2, <3>3, <4>1
      <4>3. ~ready /\ \A e \in Callers : e # c => flow[e].pc = "idle"
        BY <4>2 DEF Sound, Handshake
      <4> QED
        BY <1>1, <4>1, <4>2, <4>3
    <3> QED
      BY <3>2, <3>3 DEF Handshake
  <2> QED
    BY <2>1, <2>2
<1>6. ready' \in BOOLEAN
  BY DEF Sound
<1> QED
  BY <1>1, <1>2, <1>3, <1>4, <1>5, <1>6 DEF Sound

LEMMA CallerFacts ==
  ASSUME Sound, NEW c \in Callers
  PROVE  /\ Local(flow[c], asked[c], allowed, server, catalog)
         /\ flow[c] \in FlowType /\ asked[c] \in AskedType
         /\ flow[c].id <= nextID /\ nextID \in Nat /\ ready \in BOOLEAN
         /\ session = server /\ server \in 0 .. 1
         /\ asked = [asked EXCEPT ![c] = asked[c]] /\ flow = [flow EXCEPT ![c] = flow[c]]
BY DEF Sound, Ids, Local

(* A request goes on: what it is about stays as it is.                     *)
Same(f, g) == /\ f.op = g.op /\ f.method = g.method /\ f.id = g.id /\ f.page = g.page
              /\ f.tools = g.tools /\ f.end = g.end

LEMMA MoveStep ==
  ASSUME Sound, NEW c \in Callers, flow[c].pc \in Working, NEW f \in FlowType, f.pc \in Working,
         Same(f, flow[c]), f.pc = "notified" => f.method = "notify",
         flow' = [flow EXCEPT ![c] = f], asked' = asked,
         Routed(f, asked[c], allowed), Picked(f, asked[c]),
         f.pc \in {"sent", "body"} /\ f.method # "initialize" => f.sid = server',
         UNCHANGED <<allowed, catalog, nextID, ready, executors>>,
         server' = server \/ Shaking(flow[c]), session' = server', server' \in 0 .. 1
  PROVE  Sound' /\ executors' = executors
<1>1. Local(f, asked[c], allowed, server', catalog)
  BY CallerFacts DEF Local, Same, Listing, Underway, Paging, Working
<1>2. server' = server \/ \A d \in Callers : d # c => flow[d].pc = "idle"
  BY DEF Sound, Handshake
<1>3. asked' = [asked EXCEPT ![c] = asked[c]]
  BY CallerFacts
<1>4. Shaking(f) => Shaking(flow[c])
  BY DEF Same, Shaking
<1>5. f.id <= nextID' /\ nextID <= nextID' /\ nextID' \in Nat /\ f.id = flow[c].id
  BY CallerFacts DEF Same
<1>6. Sound'
  BY <1>1, <1>2, <1>3, <1>4, <1>5, CallerStep
<1> QED
  BY <1>6

(* An operation ends.                                                      *)
LEMMA EndStep ==
  ASSUME Sound, NEW c \in Callers, flow[c].pc \in Working,
         NEW e \in {"ok", "failed"}, NEW ts \in Seq(RemoteTool),
         flow' = [flow EXCEPT ![c] = Mcp!Ended(flow[c], e, ts)],
         UNCHANGED <<asked, allowed, catalog, nextID, session, server>>, ready' \in {ready, TRUE},
         flow[c].op # "call" /\ e = "ok" =>
            /\ Len(ts) <= MaxTools
            /\ Len(ts) < MaxTools /\ ~asked[c].misled => ts = Mcp!FlattenSeq(catalog.pages)
  PROVE  Sound'
<1> DEFINE f == Mcp!Ended(flow[c], e, ts)
<1>1. /\ Local(flow[c], asked[c], allowed, server, catalog) /\ flow[c] \in FlowType
      /\ nextID \in Nat /\ ready \in BOOLEAN
  BY CallerFacts
<1>2. f = [pc |-> "idle", op |-> flow[c].op, method |-> "none", id |-> 0, sid |-> 0, host |-> Endpoint,
           hops |-> 0, page |-> 0, tools |-> ts, took |-> "none", end |-> e]
  <2>1. f = [Mcp!Idle EXCEPT !.op = flow[c].op, !.end = e, !.tools = ts]
    BY DEF Mcp!Ended
  <2> HIDE DEF f
  <2> QED
    BY <2>1 DEF Mcp!Idle
<1>3. flow' = [flow EXCEPT ![c] = f] /\ asked' = [asked EXCEPT ![c] = asked[c]]
  BY CallerFacts
<1> HIDE DEF f
<1>4. flow[c].op \in {"none", "connect", "call", "list"}
  BY <1>1 DEF FlowType
<1>5. f \in FlowType
  BY <1>2, <1>4 DEF FlowType
<1>6. /\ f.id = 0 /\ f.pc = "idle" /\ f.end = e /\ f.tools = ts /\ f.op = flow[c].op
      /\ f.id <= nextID' /\ nextID <= nextID' /\ nextID' \in Nat
  BY <1>1, <1>2
<1>7. Local(f, asked[c], allowed, server', catalog)
  BY <1>1, <1>5, <1>6 DEF Local, Routed, Picked, Listing, Working
<1>8. ~Shaking(f)
  BY <1>6 DEF Shaking, Working
<1>9. session' = server' /\ server' \in 0 .. 1 /\ ready' \in BOOLEAN
  BY <1>1, CallerFacts
<1> QED
  BY <1>3, <1>6, <1>7, <1>8, <1>9, CallerStep

(* An operation that fails, or its acknowledgement, which may.             *)
LEMMA FailStep ==
  ASSUME Sound, NEW c \in Callers, flow[c].pc \in Working, Mcp!Fail(c), UNCHANGED <<allowed, catalog>>
  PROVE  Sound' /\ executors' = executors
<1>1. UNCHANGED <<asked, nextID, session, ready, executors, server>>
  BY DEF Mcp!Fail, Mcp!client
<1>2. CASE flow[c].method # "notify"
  <2>1. flow' = [flow EXCEPT ![c] = Mcp!Ended(flow[c], "failed", <<>>)] /\ <<>> \in Seq(RemoteTool)
    BY <1>2 DEF Mcp!Fail
  <2> QED
    BY <1>1, <2>1, EndStep
<1>3. CASE flow[c].method = "notify"
  <2> DEFINE f == [flow[c] EXCEPT !.pc = "notified"]
  <2>1. flow' = [flow EXCEPT ![c] = f] /\ flow[c] \in FlowType
    BY <1>3, CallerFacts DEF Mcp!Fail
  <2>2. f \in FlowType /\ Same(f, flow[c]) /\ f.pc = "notified"
    BY <2>1 DEF FlowType, Working, Same
  <2> HIDE DEF f
  <2>3. Routed(f, asked[c], allowed) /\ Picked(f, asked[c])
    <3>1. allowed \subseteq asked[c].permitted
      BY CallerFacts DEF Local, Routed, Working
    <3> QED
      BY <2>2, <3>1 DEF Routed, Picked
  <2>4. session = server /\ server \in 0 .. 1
    BY CallerFacts
  <2> QED
    BY <1>1, <1>3, <2>1, <2>2, <2>3, <2>4, MoveStep DEF Working, Same
<1> QED
  BY <1>2, <1>3

LEMMA PostStep ==
  ASSUME Sound, NEW c \in Callers, UNCHANGED <<allowed, catalog>>,
         \/ Mcp!Guard(c) \/ Mcp!Send(c) \/ (\E host \in Hosts : Mcp!Redirect(c, host))
         \/ (\E sid \in 0 .. 1 : Mcp!Answer(c, sid)) \/ Mcp!GiveUp(c) \/ Mcp!Acknowledged(c)
         \/ Mcp!Reject(c)
  PROVE  Sound' /\ executors' = executors
<1>1. /\ Local(flow[c], asked[c], allowed, server, catalog)
      /\ flow[c] \in FlowType /\ asked[c] \in AskedType /\ session = server /\ server \in 0 .. 1
  BY CallerFacts
<1>2. CASE Mcp!Guard(c)
  <2>1. flow[c].pc \in Working
    BY <1>2 DEF Mcp!Guard, Mcp!At, Working
  <2>2. CASE Mcp!Refuses(Endpoint)
    BY <1>2, <2>1, <2>2, FailStep DEF Mcp!Guard
  <2>3. CASE ~Mcp!Refuses(Endpoint)
    <3> DEFINE f == [flow[c] EXCEPT !.pc = "send"]
    <3>1. /\ flow' = [flow EXCEPT ![c] = f] /\ Endpoint \in allowed
          /\ flow[c].pc = "guard"
          /\ UNCHANGED <<asked, nextID, session, ready, executors, server>>
      BY <1>2, <2>3 DEF Mcp!Guard, Mcp!Refuses, Mcp!At, Mcp!client
    <3>2. /\ f \in FlowType /\ Same(f, flow[c]) /\ f.pc = "send" /\ f.host = flow[c].host
      BY <1>1 DEF FlowType, Working, Same
    <3> HIDE DEF f
    <3>3. Routed(f, asked[c], allowed) /\ Picked(f, asked[c])
      BY <1>1, <3>1, <3>2 DEF Local, Routed, Picked
    <3> QED
      BY <1>1, <2>1, <3>1, <3>2, <3>3, MoveStep DEF Working
  <2> QED
    BY <2>2, <2>3
<1>3. CASE Mcp!Send(c)
  <2> DEFINE f == [flow[c] EXCEPT !.pc = "sent", !.sid = session]
  <2>1. /\ flow' = [flow EXCEPT ![c] = f] /\ flow[c].pc = "send"
        /\ UNCHANGED <<asked, nextID, session, ready, executors, server>>
    BY <1>3 DEF Mcp!Send, Mcp!At, Mcp!client
  <2>2. /\ f \in FlowType /\ Same(f, flow[c]) /\ f.pc = "sent" /\ f.host = flow[c].host
        /\ f.sid = server
    BY <1>1 DEF FlowType, Working, Same
  <2> HIDE DEF f
  <2>3. Routed(f, asked[c], allowed) /\ Picked(f, asked[c])
    BY <1>1, <2>1, <2>2 DEF Local, Routed, Picked
  <2> QED
    BY <1>1, <2>1, <2>2, <2>3, MoveStep DEF Working
<1>4. ASSUME NEW host \in Hosts, Mcp!Redirect(c, host)
      PROVE  Sound' /\ executors' = executors
  <2>1. flow[c].pc = "sent" /\ flow[c].pc \in Working
    BY <1>4 DEF Mcp!Redirect, Mcp!At, Working
  <2>2. CASE Mcp!TooFar(flow[c].hops) \/ Mcp!Refuses(host)
    BY <1>4, <2>1, <2>2, FailStep DEF Mcp!Redirect
  <2>3. CASE ~(Mcp!TooFar(flow[c].hops) \/ Mcp!Refuses(host))
    <3> DEFINE f == [flow[c] EXCEPT !.host = host, !.hops = @ + 1]
    <3>1. /\ flow' = [flow EXCEPT ![c] = f] /\ host \in allowed
          /\ UNCHANGED <<asked, nextID, session, ready, executors, server>>
      <4>1. /\ flow' = [flow EXCEPT ![c].host = host, ![c].hops = @ + 1] /\ host \in allowed
            /\ UNCHANGED <<asked, nextID, session, ready, executors, server>>
        BY <1>4, <2>3 DEF Mcp!Redirect, Mcp!Refuses, Mcp!client
      <4> QED
        BY <4>1
    <3>2. /\ f \in FlowType /\ Same(f, flow[c]) /\ f.pc = "sent" /\ f.host = host
          /\ f.sid = flow[c].sid
      <4>1. flow[c].hops + 1 \in Int
        BY <1>1 DEF FlowType
      <4>2. f = [[flow[c] EXCEPT !.host = host] EXCEPT !.hops = flow[c].hops + 1]
        BY <1>1 DEF FlowType
      <4>3. [flow[c] EXCEPT !.host = host] \in FlowType
        BY <1>1 DEF FlowType
      <4>4. f \in FlowType
        BY <4>1, <4>2, <4>3 DEF FlowType
      <4>5. Same(f, flow[c]) /\ f.pc = "sent" /\ f.host = host /\ f.sid = flow[c].sid
        BY <1>1, <2>1 DEF FlowType, Same
      <4> QED
        BY <4>4, <4>5
    <3> HIDE DEF f
    <3>3. Routed(f, asked[c], allowed) /\ Picked(f, asked[c])
      BY <1>1, <2>1, <3>1, <3>2 DEF Local, Routed, Picked
    <3>4. f.pc \in {"sent", "body"} /\ f.method # "initialize" => f.sid = server
      BY <1>1, <2>1, <3>2 DEF Local, Same
    <3> QED
      BY <1>1, <2>1, <3>1, <3>2, <3>3, <3>4, MoveStep
  <2> QED
    BY <2>2, <2>3
<1>5. ASSUME NEW sid \in 0 .. 1, Mcp!Answer(c, sid)
      PROVE  Sound' /\ executors' = executors
  <2> DEFINE f == [flow[c] EXCEPT !.pc = "body"]
  <2>1. /\ flow' = [flow EXCEPT ![c] = f] /\ flow[c].pc = "sent"
        /\ server' = (IF sid # 0 THEN sid ELSE server) /\ session' = IF sid # 0 THEN sid ELSE session
        /\ flow[c].method = "initialize" \/ sid \in {0, server}
        /\ UNCHANGED <<asked, nextID, ready, executors>>
    BY <1>5 DEF Mcp!Answer, Mcp!At, Mcp!Adopted
  <2>2. /\ f \in FlowType /\ Same(f, flow[c]) /\ f.pc = "body" /\ f.host = flow[c].host
        /\ f.sid = flow[c].sid /\ flow[c].pc \in Working
    BY <1>1, <2>1 DEF FlowType, Working, Same
  <2> HIDE DEF f
  <2>3. Routed(f, asked[c], allowed) /\ Picked(f, asked[c])
    BY <1>1, <2>1, <2>2 DEF Local, Routed, Picked
  <2>4. /\ server' = session' /\ server' \in 0 .. 1
        /\ server' = server \/ flow[c].method = "initialize"
    BY <1>1, <2>1
  <2>5. f.method # "initialize" => f.sid = server'
    BY <1>1, <2>1, <2>2, <2>4 DEF Local, Same
  <2> QED
    BY <1>1, <2>1, <2>2, <2>3, <2>4, <2>5, MoveStep DEF Working, Shaking
<1>6. CASE Mcp!GiveUp(c) \/ Mcp!Reject(c)
  <2>1. flow[c].pc \in Working /\ Mcp!Fail(c)
    BY <1>6 DEF Mcp!GiveUp, Mcp!Reject, Mcp!At, Working
  <2> QED
    BY <2>1, FailStep
<1>7. CASE Mcp!Acknowledged(c)
  <2> DEFINE f == [flow[c] EXCEPT !.pc = "notified"]
  <2>1. /\ flow' = [flow EXCEPT ![c] = f] /\ flow[c].pc = "body" /\ flow[c].method = "notify"
        /\ UNCHANGED <<asked, nextID, session, ready, executors, server>>
    BY <1>7 DEF Mcp!Acknowledged, Mcp!At, Mcp!client
  <2>2. f \in FlowType /\ Same(f, flow[c]) /\ f.pc = "notified"
    BY <1>1 DEF FlowType, Working, Same
  <2> HIDE DEF f
  <2>3. Routed(f, asked[c], allowed) /\ Picked(f, asked[c])
    BY <1>1, <2>1, <2>2 DEF Local, Routed, Picked
  <2> QED
    BY <1>1, <2>1, <2>2, <2>3, MoveStep DEF Working, Same
<1> QED
  BY <1>2, <1>3, <1>4, <1>5, <1>6, <1>7

(* A new request: what it is, and what is remembered of it.                *)
Count(c)   == IF flow[c].pc = "idle" THEN 1 ELSE asked[c].requests + 1
Misled(c)  == asked[c].misled /\ flow[c].pc # "idle"

LEMMA RequestedFacts ==
  ASSUME Sound, NEW c \in Callers, NEW f \in FlowType, NEW m \in {"initialize", "notify", "call", "list"},
         Mcp!Requested(c, f, m)
  PROVE  \E g \in FlowType, h \in AskedType :
            /\ flow' = [flow EXCEPT ![c] = g] /\ asked' = [asked EXCEPT ![c] = h]
            /\ g.pc = "guard" /\ g.method = m /\ g.host = Endpoint
            /\ g.op = f.op /\ g.page = f.page /\ g.tools = f.tools /\ g.end = f.end
            /\ nextID' \in Nat /\ nextID <= nextID' /\ g.id <= nextID' /\ (g.id = 0 \/ nextID < g.id)
            /\ m # "notify" => nextID' # 0
            /\ h.requests = Count(c) /\ h.permitted = allowed /\ h.misled = Misled(c)
<1> DEFINE g == [f EXCEPT !.pc = "guard", !.method = m, !.host = Endpoint, !.hops = 0,
                          !.id = IF m = "notify" THEN 0 ELSE nextID']
           h == [requests |-> Count(c), permitted |-> allowed, due |-> FALSE, misled |-> Misled(c)]
<1>1. /\ nextID \in Nat /\ nextID' = IF m = "notify" THEN nextID ELSE nextID + 1
      /\ flow' = [flow EXCEPT ![c] = g]
  BY CallerFacts DEF Mcp!Requested, Mcp!Numbered
<1>2. /\ g \in FlowType /\ g.pc = "guard" /\ g.method = m /\ g.host = Endpoint
      /\ g.op = f.op /\ g.page = f.page /\ g.tools = f.tools /\ g.end = f.end
      /\ g.id = IF m = "notify" THEN 0 ELSE nextID'
  <2> DEFINE id == IF m = "notify" THEN 0 ELSE nextID'
  <2>1. id \in Nat
    BY <1>1
  <2> HIDE DEF id
  <2>2. g = [f EXCEPT !.pc = "guard", !.method = m, !.host = Endpoint, !.hops = 0, !.id = id]
    BY DEF id
  <2>3. /\ g.pc = "guard" /\ g.method = m /\ g.host = Endpoint /\ g.hops = 0 /\ g.id = id
        /\ g.op = f.op /\ g.page = f.page /\ g.tools = f.tools /\ g.end = f.end
        /\ g.sid = f.sid /\ g.took = f.took
    BY <2>2 DEF FlowType
  <2>4. g \in FlowType
    <3>1. g = [pc |-> "guard", op |-> f.op, method |-> m, id |-> id, sid |-> f.sid, host |-> Endpoint,
               hops |-> 0, page |-> f.page, tools |-> f.tools, took |-> f.took, end |-> f.end]
      <4>1. f = [pc |-> f.pc, op |-> f.op, method |-> f.method, id |-> f.id, sid |-> f.sid, host |-> f.host,
                 hops |-> f.hops, page |-> f.page, tools |-> f.tools, took |-> f.took, end |-> f.end]
        BY DEF FlowType
      <4> HIDE DEF g
      <4> QED
        BY <2>2, <4>1
    <3>2. /\ f.op \in {"none", "connect", "call", "list"} /\ f.sid \in 0 .. 1 /\ f.page \in Nat
          /\ f.tools \in Seq(RemoteTool) /\ f.took \in {"none", "own", "other"}
          /\ f.end \in {"none", "ok", "failed"}
      BY DEF FlowType
    <3> HIDE DEF g
    <3> QED
      BY <2>1, <3>1, <3>2 DEF FlowType, Working
  <2> QED
    BY <2>3, <2>4 DEF id
<1>3. h \in AskedType
  <2>1. Count(c) \in Nat /\ Misled(c) \in BOOLEAN /\ allowed \in SUBSET Hosts
    BY CallerFacts DEF Count, Misled, AskedType, Sound
  <2> QED
    BY <2>1 DEF AskedType
<1>4. asked' = [asked EXCEPT ![c] = h]
  <2>1. /\ asked' = [asked EXCEPT ![c].requests = IF flow[c].pc = "idle" THEN 1 ELSE @ + 1,
                                  ![c].permitted = allowed, ![c].due = FALSE,
                                  ![c].misled = @ /\ ~(flow[c].pc = "idle")]
        /\ asked[c] \in AskedType /\ DOMAIN asked = Callers /\ asked = [d \in Callers |-> asked[d]]
    BY CallerFacts DEF Mcp!Requested, Mcp!At, Sound
  <2>2. asked' = [asked EXCEPT ![c] = asked'[c]]
    BY <2>1
  <2>3. asked'[c] = [asked[c] EXCEPT !.requests = Count(c), !.permitted = allowed, !.due = FALSE,
                                     !.misled = Misled(c)]
    BY <2>1 DEF Count, Misled
  <2>4. asked'[c] = h
    BY <2>1, <2>3 DEF AskedType
  <2> QED
    BY <2>2, <2>4
<1> HIDE DEF g
<1>5. h.requests = Count(c) /\ h.permitted = allowed /\ h.misled = Misled(c)
  OBVIOUS
<1> HIDE DEF h
<1>6. /\ nextID' \in Nat /\ nextID <= nextID' /\ g.id <= nextID' /\ (g.id = 0 \/ nextID < g.id)
      /\ m # "notify" => nextID' # 0
  BY <1>1, <1>2
<1> QED
  BY <1>1, <1>2, <1>3, <1>4, <1>5, <1>6

LEMMA RequestStep ==
  ASSUME Sound, NEW c \in Callers, NEW f \in FlowType, NEW m \in {"initialize", "notify", "call", "list"},
         Mcp!Requested(c, f, m), f.end = "none",
         UNCHANGED <<allowed, catalog, session, executors, ready, server>>,
         \/ m = "initialize" /\ nextID = 0
         \/ m # "initialize" /\ (flow[c].pc \in Working \/ ready),
         Count(c) <= MaxPages + 2,
         m \in {"initialize", "notify"} =>
            f.op = "connect" /\ f.page = 0 /\ f.tools = <<>> /\ Count(c) = IF m = "initialize" THEN 1 ELSE 2,
         m = "call" => f.op = "call" /\ Count(c) = 1,
         m = "list" => Paging(f, [requests |-> Count(c), misled |-> Misled(c)], catalog)
  PROVE  Sound' /\ executors' = executors
<1>1. PICK g \in FlowType, h \in AskedType :
            /\ flow' = [flow EXCEPT ![c] = g] /\ asked' = [asked EXCEPT ![c] = h]
            /\ g.pc = "guard" /\ g.method = m /\ g.host = Endpoint
            /\ g.op = f.op /\ g.page = f.page /\ g.tools = f.tools /\ g.end = f.end
            /\ nextID' \in Nat /\ nextID <= nextID' /\ g.id <= nextID' /\ (g.id = 0 \/ nextID < g.id)
            /\ m # "notify" => nextID' # 0
            /\ h.requests = Count(c) /\ h.permitted = allowed /\ h.misled = Misled(c)
  BY RequestedFacts
<1>2. m = "list" => Paging(g, h, catalog)
  BY <1>1 DEF Paging
<1>3. Underway(g, h, catalog)
  BY <1>1, <1>2 DEF Underway
<1>4. Local(g, h, allowed, server', catalog)
  BY <1>1, <1>3 DEF Local, Routed, Picked, Listing
<1>5. session' = server' /\ server' \in 0 .. 1
  BY CallerFacts
<1>6. \/ nextID = 0 /\ nextID' # 0 /\ UNCHANGED ready
      \/ (Shaking(g) => Shaking(flow[c])) /\ (flow[c].pc \in Working \/ ready)
  BY <1>1 DEF Shaking
<1>7. Sound'
  BY <1>1, <1>4, <1>5, <1>6, CallerStep
<1> QED
  BY <1>7

-----------------------------------------------------------------------------
(* The client: listings. *)

LEMMA TrimmedFacts ==
  ASSUME NEW ts \in Seq(RemoteTool)
  PROVE  /\ Mcp!Trimmed(ts) \in Seq(RemoteTool) /\ Len(Mcp!Trimmed(ts)) <= MaxTools
         /\ Len(Mcp!Trimmed(ts)) < MaxTools => Mcp!Trimmed(ts) = ts /\ Len(ts) < MaxTools
<1>1. Len(ts) \in Nat /\ MaxTools \in Nat
  BY LenProperties, LimitAssumption
<1>2. CASE Len(ts) > MaxTools
  <2>1. \A i \in 1 .. MaxTools : ts[i] \in RemoteTool
    BY <1>1, <1>2, ElementOfSeq
  <2>2. SubSeq(ts, 1, MaxTools) \in Seq(RemoteTool) /\ Len(SubSeq(ts, 1, MaxTools)) = MaxTools
    BY <1>1, <1>2, <2>1, SubSeqProperties
  <2> QED
    BY <1>1, <1>2, <2>2 DEF Mcp!Trimmed
<1>3. CASE ~(Len(ts) > MaxTools)
  BY <1>1, <1>3 DEF Mcp!Trimmed
<1> QED
  BY <1>2, <1>3

(* The client's own instance of the operators.                             *)
LEMMA SameOrder ==
  ASSUME NEW S, NEW ts
  PROVE  Mcp!Chosen(ts, S) = [n \in 1 .. Cardinality(S) |-> ts[InOrder(S)[n]]]
<1>1. \A T : Mcp!Cardinality(T) = Cardinality(T)
  BY DEF Mcp!Cardinality, Cardinality
<1>2. Mcp!InOrder(S) = InOrder(S)
  <2> DEFINE before(i) == {j \in S : j < i}
  <2>1. ASSUME NEW n
        PROVE  (CHOOSE i \in S : Mcp!Cardinality(before(i)) = n - 1) = CHOOSE i \in S : Cardinality(before(i)) = n - 1
    <3> HIDE DEF before
    <3>1. \A i : (Mcp!Cardinality(before(i)) = n - 1) <=> (Cardinality(before(i)) = n - 1)
      BY <1>1
    <3> QED
      BY <3>1, Zenon
  <2>2. Mcp!InOrder(S) = [n \in 1 .. Mcp!Cardinality(S) |-> CHOOSE i \in S : Mcp!Cardinality(before(i)) = n - 1]
    BY DEF Mcp!InOrder
  <2>3. InOrder(S) = [n \in 1 .. Cardinality(S) |-> CHOOSE i \in S : Cardinality(before(i)) = n - 1]
    BY DEF InOrder
  <2> HIDE DEF before
  <2> QED
    BY <1>1, <2>1, <2>2, <2>3
<1> QED
  BY <1>1, <1>2 DEF Mcp!Chosen

(* Of two adopted tools the later one would not have been adopted under    *)
(* the name of the other.                                                  *)
LEMMA ExecutorsFacts ==
  ASSUME NEW ts \in Seq(RemoteTool)
  PROVE  \A i, j \in DOMAIN Mcp!Executors(ts) :
            i # j => RegistryName(Mcp!Executors(ts)[i]) # RegistryName(Mcp!Executors(ts)[j])
<1> DEFINE K == {i \in DOMAIN ts : Mcp!Adoptable(ts, i)}
           at(n) == InOrder(K)[n]
<1>1. K \in SUBSET Nat /\ IsFiniteSet(K)
  <2>1. DOMAIN ts = 1 .. Len(ts) /\ Len(ts) \in Nat
    BY LenProperties
  <2>2. IsFiniteSet(1 .. Len(ts)) /\ K \in SUBSET (1 .. Len(ts))
    BY <2>1, FS_Interval
  <2> QED
    BY <2>1, <2>2, FS_Subset
<1>2. Mcp!Executors(ts) = [n \in 1 .. Cardinality(K) |-> ts[at(n)]]
  <2> HIDE DEF at
  <2>1. Mcp!Executors(ts) = Mcp!Chosen(ts, K)
    BY DEF Mcp!Executors
  <2> HIDE DEF K
  <2>2. Mcp!Chosen(ts, K) = [n \in 1 .. Cardinality(K) |-> ts[at(n)]]
    BY SameOrder DEF at
  <2> QED
    BY <2>1, <2>2
<1>3. \A y \in K : \A j \in 1 .. (y - 1) : RegistryName(ts[j]) # RegistryName(ts[y])
  BY DEF Mcp!Adoptable
<1>4. ASSUME NEW m \in 1 .. Cardinality(K), NEW n \in 1 .. Cardinality(K), m < n
      PROVE  RegistryName(ts[at(m)]) # RegistryName(ts[at(n)])
  <2>1. at(m) \in K /\ at(n) \in K
    BY <1>1, InOrderFacts
  <2>2. at(m) < at(n)
    BY <1>1, <1>4, InOrderGrows
  <2>3. at(m) \in Nat /\ at(n) \in Nat /\ at(m) # 0
    <3>1. DOMAIN ts = 1 .. Len(ts)
      BY LenProperties
    <3> QED
      BY <1>1, <2>1, <3>1
  <2> HIDE DEF at, K
  <2>4. at(m) \in 1 .. (at(n) - 1)
    BY <2>2, <2>3
  <2> QED
    BY <1>3, <2>1, <2>4
<1>5. Cardinality(K) \in Nat
  BY <1>1, InOrderFacts
<1> HIDE DEF K, at
<1>6. ASSUME NEW m \in 1 .. Cardinality(K), NEW n \in 1 .. Cardinality(K), m # n
      PROVE  RegistryName(ts[at(m)]) # RegistryName(ts[at(n)])
  <2>1. m < n \/ n < m
    BY <1>5, <1>6
  <2> QED
    BY <1>4, <2>1
<1> QED
  BY <1>2, <1>6

(* A page more.                                                            *)
LEMMA PageFacts ==
  ASSUME Sound, NEW c \in Callers, flow[c].pc = "parsed", flow[c].method = "list",
         NEW own \in BOOLEAN, own <=> flow[c].took = "own", NEW n, n = flow[c].page + 1,
         NEW ts, ts = flow[c].tools \o (IF own THEN Mcp!Offered(n) ELSE <<>>)
  PROVE  /\ n \in Nat \ {0} /\ ts \in Seq(RemoteTool) /\ catalog.pages \in Seq(Seq(RemoteTool))
         /\ Len(catalog.pages) \in Nat \ {0} /\ catalog.loops \in BOOLEAN
         /\ ~asked[c].misled => own
         /\ n <= Len(catalog.pages) /\ ~asked[c].misled => ts = Joined(catalog.pages)[n]
         /\ n = 1 \/ More(catalog, n - 1)
<1> DEFINE f == flow[c]
           ps == catalog.pages
<1>1. /\ f \in FlowType /\ Picked(f, asked[c]) /\ Paging(f, asked[c], catalog)
  BY CallerFacts DEF Local, Underway, Working
<1>2. /\ ps \in Seq(Seq(RemoteTool)) /\ ps # <<>> /\ catalog.loops \in BOOLEAN
  BY ServerAssumption DEF Sound
<1>3. /\ Len(ps) \in Nat \ {0} /\ Joined(ps)[1] = ps[1]
      /\ \A i \in 2 .. Len(ps) : Joined(ps)[i] = Joined(ps)[i - 1] \o ps[i]
      /\ \A i \in 1 .. Len(ps) : ps[i] \in Seq(RemoteTool)
  BY <1>2, JoinedFacts, ElementOfSeq
<1>4. f.page \in Nat /\ f.tools \in Seq(RemoteTool) /\ n \in Nat \ {0} /\ n - 1 = f.page
  BY <1>1 DEF FlowType
<1>5. Mcp!Offered(n) \in Seq(RemoteTool) /\ (n <= Len(ps) => Mcp!Offered(n) = ps[n])
  <2>1. Mcp!Offered(n) = IF n <= Len(ps) THEN ps[n] ELSE ps[Len(ps)]
    BY DEF Mcp!Offered, Mcp!Last
  <2>2. ps[Len(ps)] \in Seq(RemoteTool)
    BY <1>3
  <2>3. n <= Len(ps) => ps[n] \in Seq(RemoteTool)
    BY <1>3, <1>4
  <2> QED
    BY <2>1, <2>2, <2>3
<1>6. ts \in Seq(RemoteTool)
  BY <1>4, <1>5, ConcatProperties
<1>7. ~asked[c].misled => own
  BY <1>1 DEF Picked
<1>8. n = 1 \/ More(catalog, n - 1)
  BY <1>1, <1>4 DEF Paging
<1>9. ASSUME n <= Len(ps), ~asked[c].misled
      PROVE  ts = Joined(ps)[n]
  <2>1. ts = f.tools \o ps[n]
    BY <1>5, <1>7, <1>9
  <2>2. CASE n = 1
    <3>1. f.page = 0 /\ 1 \in 1 .. Len(ps)
      <4>1. f.page = 1 - 1
        BY <1>4, <2>2
      <4>2. 1 \in 1 .. Len(ps)
        BY <1>3
      <4> QED
        BY <4>1, <4>2
    <3>2. f.tools = <<>> /\ ps[1] \in Seq(RemoteTool)
      BY <1>1, <1>3, <3>1 DEF Paging
    <3> QED
      BY <1>3, <2>1, <2>2, <3>2, ConcatEmptySeq
  <2>3. CASE n # 1
    <3>1. f.page # 0 /\ f.page <= Len(ps) /\ n \in 2 .. Len(ps)
      BY <1>3, <1>4, <1>9, <2>3
    <3>2. f.tools = Joined(ps)[n - 1]
      BY <1>1, <1>4, <1>9, <3>1 DEF Paging
    <3> QED
      BY <1>3, <2>1, <3>1, <3>2
  <2> QED
    BY <2>2, <2>3
<1> QED
  BY <1>2, <1>3, <1>4, <1>6, <1>7, <1>8, <1>9

-----------------------------------------------------------------------------
(* The client: its operations. *)

LEMMA BeginStep ==
  ASSUME Sound, NEW c \in Callers, UNCHANGED <<allowed, catalog>>,
         Mcp!Connect(c) \/ Mcp!CallTool(c) \/ Mcp!ListTools(c)
  PROVE  Sound' /\ executors' = executors
<1>1. PICK op \in {"connect", "call", "list"}, m \in {"initialize", "call", "list"} :
        /\ Mcp!Requested(c, [Mcp!Idle EXCEPT !.op = op], m) /\ flow[c].pc = "idle"
        /\ UNCHANGED <<session, ready, executors, server>>
        /\ \/ op = "connect" /\ m = "initialize" /\ nextID = 0
           \/ op = "call" /\ m = "call" /\ ready
           \/ op = "list" /\ m = "list" /\ ready
  <2>1. CASE Mcp!Connect(c)
    BY <2>1 DEF Mcp!Connect, Mcp!Begin, Mcp!At
  <2>2. CASE Mcp!CallTool(c)
    BY <2>2 DEF Mcp!CallTool, Mcp!Begin, Mcp!At
  <2>3. CASE Mcp!ListTools(c)
    BY <2>3 DEF Mcp!ListTools, Mcp!Begin, Mcp!At
  <2> QED
    BY <2>1, <2>2, <2>3
<1> DEFINE f == [Mcp!Idle EXCEPT !.op = op]
<1>2. f = [pc |-> "idle", op |-> op, method |-> "none", id |-> 0, sid |-> 0, host |-> Endpoint,
           hops |-> 0, page |-> 0, tools |-> <<>>, took |-> "none", end |-> "none"]
  BY DEF Mcp!Idle
<1>3. Mcp!Requested(c, f, m)
  BY <1>1
<1> HIDE DEF f
<1>4. /\ f \in FlowType /\ f.end = "none" /\ f.op = op /\ f.page = 0 /\ f.tools = <<>>
  <2>1. <<>> \in Seq(RemoteTool)
    OBVIOUS
  <2> QED
    BY <1>2, <2>1 DEF FlowType
<1>5. Count(c) = 1 /\ Count(c) <= MaxPages + 2 /\ MaxPages \in Nat \ {0}
  BY <1>1, LimitAssumption DEF Count
<1>6. m = "list" => Paging(f, [requests |-> Count(c), misled |-> Misled(c)], catalog)
  BY <1>1, <1>4, <1>5 DEF Paging
<1>7. Sound' /\ executors' = executors
  BY <1>1, <1>3, <1>4, <1>5, <1>6, RequestStep
<1> QED
  BY <1>7

LEMMA HandshakeStep ==
  ASSUME Sound, NEW c \in Callers, UNCHANGED <<allowed, catalog>>, Mcp!Initialized(c) \/ Mcp!FirstPage(c)
  PROVE  Sound' /\ executors' = executors
<1>1. /\ flow[c] \in FlowType /\ asked[c] \in AskedType /\ MaxPages \in Nat \ {0}
  BY CallerFacts, LimitAssumption
<1>2. CASE Mcp!Initialized(c)
  <2>1. /\ flow[c].pc = "parsed" /\ flow[c].method = "initialize"
        /\ Mcp!Requested(c, flow[c], "notify")
        /\ UNCHANGED <<session, executors, ready, server>>
    BY <1>2 DEF Mcp!Initialized, Mcp!At
  <2>2. Underway(flow[c], asked[c], catalog) /\ flow[c].pc \in Working
    BY <2>1, CallerFacts DEF Local, Working
  <2>3. /\ flow[c].end = "none" /\ flow[c].op = "connect" /\ flow[c].page = 0 /\ flow[c].tools = <<>>
        /\ Count(c) = 2 /\ Count(c) <= MaxPages + 2
    BY <1>1, <2>1, <2>2 DEF Underway, Count
  <2> QED
    BY <1>1, <2>1, <2>2, <2>3, RequestStep
<1>3. CASE Mcp!FirstPage(c)
  <2> DEFINE f == [flow[c] EXCEPT !.took = "none"]
  <2>1. /\ flow[c].pc = "notified" /\ Mcp!Requested(c, f, "list")
        /\ UNCHANGED <<session, executors, ready, server>>
    BY <1>3 DEF Mcp!FirstPage, Mcp!At
  <2>2. Underway(flow[c], asked[c], catalog) /\ flow[c].pc \in Working
    BY <2>1, CallerFacts DEF Local, Working
  <2>3. f \in FlowType /\ Same(f, flow[c])
    BY <1>1 DEF FlowType, Same
  <2> HIDE DEF f
  <2>4. /\ f.end = "none" /\ f.op = "connect" /\ f.page = 0 /\ f.tools = <<>>
        /\ Count(c) = 3 /\ Count(c) <= MaxPages + 2
    BY <1>1, <2>1, <2>2, <2>3 DEF Underway, Count, Same
  <2>5. Paging(f, [requests |-> Count(c), misled |-> Misled(c)], catalog)
    BY <1>1, <2>4 DEF Paging
  <2> QED
    BY <2>1, <2>2, <2>3, <2>4, <2>5, RequestStep
<1> QED
  BY <1>2, <1>3

LEMMA ReadPageStep ==
  ASSUME Sound, Mcp!NamesUnique, NEW c \in Callers, UNCHANGED <<allowed, catalog>>, Mcp!ReadPage(c)
  PROVE  Sound' /\ Mcp!NamesUnique'
<1> DEFINE own   == flow[c].took = "own"
           n     == flow[c].page + 1
           tools == flow[c].tools \o (IF own THEN Mcp!Offered(n) ELSE <<>>)
<1>1. flow[c].pc = "parsed" /\ flow[c].method = "list" /\ flow[c].pc \in Working
  BY DEF Mcp!ReadPage, Mcp!At, Working
<1>2. \/ Mcp!LastPage(tools, n, own /\ Mcp!HasNext(n)) /\ Mcp!Listed(c, tools)
      \/ /\ ~Mcp!LastPage(tools, n, own /\ Mcp!HasNext(n)) /\ Mcp!PageLeft(n)
         /\ Mcp!Requested(c, [flow[c] EXCEPT !.tools = tools, !.page = n, !.took = "none"], "list")
         /\ UNCHANGED <<session, dropped, executors, ready, server>>
      \/ Mcp!Fail(c)
  BY DEF Mcp!ReadPage
<1>3. own \in BOOLEAN
  OBVIOUS
<1>4. /\ n \in Nat \ {0} /\ tools \in Seq(RemoteTool) /\ catalog.pages \in Seq(Seq(RemoteTool))
      /\ Len(catalog.pages) \in Nat \ {0} /\ catalog.loops \in BOOLEAN
      /\ ~asked[c].misled => own
      /\ n <= Len(catalog.pages) /\ ~asked[c].misled => tools = Joined(catalog.pages)[n]
      /\ n = 1 \/ More(catalog, n - 1)
  BY <1>1, <1>3, PageFacts
<1>5. /\ flow[c] \in FlowType /\ asked[c] \in AskedType /\ MaxPages \in Nat \ {0}
      /\ Underway(flow[c], asked[c], catalog) /\ Paging(flow[c], asked[c], catalog)
      /\ n = flow[c].page + 1
  BY <1>1, CallerFacts, LimitAssumption DEF Local, Underway, Working
<1>6. Mcp!HasNext(n) <=> More(catalog, n)
  BY DEF Mcp!HasNext, More
<1> HIDE DEF own, n, tools
<1>7. CASE Mcp!LastPage(tools, n, own /\ Mcp!HasNext(n)) /\ Mcp!Listed(c, tools)
  <2> DEFINE ts == Mcp!Trimmed(tools)
  <2>1. /\ flow' = [flow EXCEPT ![c] = Mcp!Ended(flow[c], "ok", ts)] /\ ready' = TRUE
        /\ UNCHANGED <<nextID, session, server, asked>>
    BY <1>7 DEF Mcp!Listed
  <2>2. executors' = Mcp!Executors(ts)
    <3>1. flow'[c] = Mcp!Ended(flow[c], "ok", ts)
      BY <2>1 DEF Sound
    <3>2. flow'[c].tools = ts
      BY <3>1 DEF Mcp!Ended, Mcp!Idle
    <3> QED
      BY <1>7, <3>2 DEF Mcp!Listed
  <2>3. /\ ts \in Seq(RemoteTool) /\ Len(ts) <= MaxTools
        /\ Len(ts) < MaxTools => ts = tools /\ Len(tools) < MaxTools
    BY <1>4, TrimmedFacts
  <2>4. ASSUME Len(ts) < MaxTools, ~asked[c].misled
        PROVE  ts = Mcp!FlattenSeq(catalog.pages)
    <3>1. Len(tools) \in Nat /\ MaxTools \in Nat
      BY <1>4, LenProperties, LimitAssumption
    <3>2. own /\ ~Mcp!HasNext(n)
      BY <1>4, <1>7, <2>3, <2>4, <3>1 DEF Mcp!LastPage
    <3>3. n = Len(catalog.pages)
      BY <1>4, <1>6, <3>2 DEF More
    <3>4. tools = Joined(catalog.pages)[Len(catalog.pages)]
      BY <1>4, <2>4, <3>3
    <3>5. catalog.pages # <<>>
      BY ServerAssumption DEF Sound
    <3> QED
      BY <1>4, <2>3, <2>4, <3>4, <3>5, JoinedFacts
  <2> HIDE DEF ts
  <2>5. Sound'
    BY <1>1, <2>1, <2>3, <2>4, EndStep
  <2>6. Mcp!NamesUnique'
    BY <2>2, <2>3, ExecutorsFacts DEF Mcp!NamesUnique
  <2> QED
    BY <2>5, <2>6
<1>8. CASE /\ ~Mcp!LastPage(tools, n, own /\ Mcp!HasNext(n)) /\ Mcp!PageLeft(n)
           /\ Mcp!Requested(c, [flow[c] EXCEPT !.tools = tools, !.page = n, !.took = "none"], "list")
           /\ UNCHANGED <<session, dropped, executors, ready, server>>
  <2> DEFINE f == [flow[c] EXCEPT !.tools = tools, !.page = n, !.took = "none"]
  <2>1. /\ f \in FlowType /\ f.end = flow[c].end /\ f.op = flow[c].op
        /\ f.page = n /\ f.tools = tools
    BY <1>4, <1>5 DEF FlowType
  <2>2. Mcp!Requested(c, f, "list")
    BY <1>8
  <2> HIDE DEF f
  <2>3. n < MaxPages /\ own /\ More(catalog, n)
    BY <1>6, <1>8 DEF Mcp!LastPage, Mcp!PageLeft
  <2>4. Misled(c) = asked[c].misled /\ Count(c) = asked[c].requests + 1
    BY <1>1, <1>5 DEF Misled, Count, AskedType
  <2>5. /\ f.op \in {"connect", "list"} /\ n # 0 /\ f.end = "none"
        /\ Count(c) = n + (IF f.op = "connect" THEN 3 ELSE 1) /\ Count(c) <= MaxPages + 2
    <3>1. /\ flow[c].op \in {"connect", "list"} /\ flow[c].page \in Nat /\ flow[c].end = "none"
          /\ asked[c].requests = flow[c].page + (IF flow[c].op = "connect" THEN 3 ELSE 1)
      BY <1>1, <1>5 DEF Paging, FlowType, Underway
    <3>2. f.op \in {"connect", "list"} /\ n # 0 /\ f.end = "none"
      BY <1>4, <2>1, <3>1
    <3>3. CASE f.op = "connect"
      BY <1>5, <2>1, <2>3, <2>4, <3>1, <3>2, <3>3
    <3>4. CASE f.op # "connect"
      BY <1>5, <2>1, <2>3, <2>4, <3>1, <3>2, <3>4
    <3> QED
      BY <3>2, <3>3, <3>4
  <2>6. Paging(f, [requests |-> Count(c), misled |-> Misled(c)], catalog)
    BY <1>4, <2>1, <2>3, <2>4, <2>5 DEF Paging
  <2>7. Sound' /\ executors' = executors
    BY <1>1, <1>8, <2>1, <2>2, <2>5, <2>6, RequestStep
  <2> QED
    BY <2>7 DEF Mcp!NamesUnique
<1>9. CASE Mcp!Fail(c)
  BY <1>1, <1>9, FailStep DEF Mcp!NamesUnique
<1> QED
  BY <1>2, <1>7, <1>8, <1>9

(* A panic: nothing is under way any more.                                 *)
LEMMA PanicStep ==
  ASSUME Sound, NEW c \in Callers, flow[c].pc = "body",
         flow' = [d \in Callers |-> [flow[d] EXCEPT !.pc = "panicked"]],
         UNCHANGED <<asked, nextID, session, ready, executors, server, allowed, catalog>>
  PROVE  Sound' /\ executors' = executors
<1>1. ASSUME NEW d \in Callers
      PROVE  /\ Local(flow'[d], asked[d], allowed, server, catalog)
             /\ flow'[d].id = flow[d].id /\ flow'[d].pc = "panicked"
  <2> DEFINE f == [flow[d] EXCEPT !.pc = "panicked"]
  <2>1. flow'[d] = f /\ Local(flow[d], asked[d], allowed, server, catalog) /\ flow[d] \in FlowType
    BY CallerFacts
  <2>2. f \in FlowType /\ Same(f, flow[d]) /\ f.pc = "panicked"
    BY <2>1 DEF FlowType, Same
  <2> HIDE DEF f
  <2>3. Local(f, asked[d], allowed, server, catalog)
    BY <2>1, <2>2 DEF Local, Routed, Picked, Listing, Same, Working
  <2> QED
    BY <2>1, <2>2, <2>3 DEF Same
<1>2. DOMAIN flow' = Callers /\ flow' = [d \in Callers |-> flow'[d]]
  OBVIOUS
<1>3. Ids'
  <2>1. Ids /\ nextID' = nextID /\ \A d \in Callers : flow'[d].id = flow[d].id
    BY <1>1 DEF Sound
  <2> QED
    BY <2>1 DEF Ids
<1>4. Handshake'
  BY <1>1 DEF Sound, Handshake, Shaking, Working
<1> QED
  BY <1>1, <1>2, <1>3, <1>4 DEF Sound

(* A body: an empty batch ends every goroutine, what is picked from        *)
(* another one is a response or an error.                                  *)
LEMMA ParseStep ==
  ASSUME Sound, NEW c \in Callers, UNCHANGED <<allowed, catalog>>, NEW b \in Bodies, Mcp!Parse(c, b)
  PROVE  Sound' /\ executors' = executors
<1> DEFINE took == Mcp!PickMessage(b.messages)
<1>1. /\ flow[c].pc = "body" /\ flow[c].method # "notify" /\ flow[c].pc \in Working
      /\ Local(flow[c], asked[c], allowed, server, catalog)
      /\ flow[c] \in FlowType /\ asked[c] \in AskedType /\ session = server /\ server \in 0 .. 1
  BY CallerFacts DEF Mcp!Parse, Mcp!At, Working
<1>2. \/ /\ flow' = [d \in Callers |-> [flow[d] EXCEPT !.pc = "panicked"]]
         /\ UNCHANGED <<asked, nextID, session, ready, executors, server>>
      \/ Mcp!Fail(c)
      \/ /\ b.messages # <<>> /\ took \notin {"request", "notification"}
         /\ flow' = [flow EXCEPT ![c].pc = "parsed", ![c].took = took]
         /\ asked' = [asked EXCEPT ![c].due = "own" \in Mcp!ToSet(b.messages),
                                   ![c].misled = @ \/ took = "other"]
         /\ UNCHANGED <<nextID, session, ready, executors, server>>
  <2>1. CASE b.messages = <<>> /\ b.form = "batch"
    BY <2>1 DEF Mcp!Parse, Mcp!client
  <2>2. CASE b.messages = <<>> /\ b.form = "events" /\ ~(b.messages = <<>> /\ b.form = "batch")
    BY <2>2 DEF Mcp!Parse
  <2>3. CASE b.messages # <<>>
    BY <2>3 DEF Mcp!Parse, Mcp!client
  <2>4. b.messages = <<>> => b.form \in {"batch", "events"}
    BY ServerAssumption
  <2> QED
    BY <2>1, <2>2, <2>3, <2>4
<1>3. ASSUME flow' = [d \in Callers |-> [flow[d] EXCEPT !.pc = "panicked"]],
             UNCHANGED <<asked, nextID, session, ready, executors, server>>
      PROVE  Sound' /\ executors' = executors
  BY <1>1, <1>3, PanicStep
<1>4. ASSUME b.messages # <<>>, took \notin {"request", "notification"},
             flow' = [flow EXCEPT ![c].pc = "parsed", ![c].took = took],
             asked' = [asked EXCEPT ![c].due = "own" \in Mcp!ToSet(b.messages),
                                    ![c].misled = @ \/ took = "other"],
             UNCHANGED <<nextID, session, ready, executors, server>>
      PROVE  Sound' /\ executors' = executors
  <2>1. took \in {"own", "other"} /\ ("own" \in Mcp!ToSet(b.messages) => took = "own")
    <3>1. b.messages \in Seq({"own", "other", "request", "notification"})
      BY ServerAssumption
    <3>2. b.messages[1] \in {"own", "other", "request", "notification"}
      <4>1. 1 \in 1 .. Len(b.messages)
        BY <1>4, <3>1, EmptySeq, LenProperties
      <4> QED
        BY <3>1, <4>1, ElementOfSeq
    <3> QED
      BY <1>4, <3>2 DEF Mcp!PickMessage
  <2> HIDE DEF took
  <2> DEFINE due == "own" \in Mcp!ToSet(b.messages)
             f == [flow[c] EXCEPT !.pc = "parsed", !.took = took]
             h == [asked[c] EXCEPT !.due = due, !.misled = @ \/ took = "other"]
  <2>2. flow' = [flow EXCEPT ![c] = f] /\ asked' = [asked EXCEPT ![c] = h]
    BY <1>4
  <2>3. due \in BOOLEAN
    OBVIOUS
  <2> HIDE DEF due
  <2>4. /\ f \in FlowType /\ Same(f, flow[c]) /\ f.pc = "parsed" /\ f.took = took
    BY <1>1, <2>1 DEF FlowType, Working, Same
  <2>5. /\ h \in AskedType /\ h.requests = asked[c].requests /\ h.permitted = asked[c].permitted
        /\ h.due = due /\ h.misled = (asked[c].misled \/ took = "other")
    BY <1>1, <2>3 DEF AskedType
  <2> HIDE DEF f, h
  <2>6. Routed(f, h, allowed) /\ Picked(f, h)
    BY <1>1, <2>1, <2>4, <2>5 DEF Local, Routed, Picked, Same, due
  <2>7. Underway(f, h, catalog)
    <3>1. Underway(flow[c], asked[c], catalog)
      BY <1>1 DEF Local
    <3> QED
      BY <2>4, <2>5, <3>1 DEF Underway, Same, Paging
  <2>8. Listing(f, h, catalog)
    BY <1>1, <2>4, <2>7 DEF Listing, Underway
  <2>9. Local(f, h, allowed, server', catalog)
    BY <1>1, <2>4, <2>5, <2>6, <2>7, <2>8 DEF Local
  <2>10. /\ f.id = flow[c].id /\ f.id <= nextID /\ nextID \in Nat /\ nextID' = nextID
         /\ Shaking(f) => Shaking(flow[c])
    BY <1>1, <1>4, <2>4, CallerFacts DEF Same, Shaking
  <2>11. /\ session' = server' /\ server' \in 0 .. 1 /\ nextID' \in Nat /\ nextID <= nextID'
         /\ server' = server /\ ready' = ready /\ f.id <= nextID' /\ flow[c].pc \in Working
    BY <1>1, <1>4, <2>10
  <2>12. Sound'
    BY <2>2, <2>9, <2>10, <2>11, CallerStep
  <2> QED
    BY <1>4, <2>12
<1> QED
  BY <1>1, <1>2, <1>3, <1>4, FailStep

LEMMA CallReturnsStep ==
  ASSUME Sound, NEW c \in Callers, UNCHANGED <<allowed, catalog>>, Mcp!CallReturns(c)
  PROVE  Sound' /\ executors' = executors
<1>1. /\ flow[c].pc = "parsed" /\ flow[c].method = "call" /\ flow[c].pc \in Working
      /\ flow' = [flow EXCEPT ![c] = Mcp!Ended(flow[c], "ok", <<>>)]
      /\ UNCHANGED <<asked, nextID, session, ready, executors, server>>
  BY DEF Mcp!CallReturns, Mcp!At, Mcp!client, Working
<1>2. flow[c].op = "call"
  BY <1>1, CallerFacts DEF Local, Underway
<1>3. <<>> \in Seq(RemoteTool)
  OBVIOUS
<1>4. Sound'
  BY <1>1, <1>2, <1>3, EndStep
<1> QED
  BY <1>1, <1>4

(* A change of the policy adds to what was allowed since a request began.  *)
LEMMA PolicyStep ==
  ASSUME Sound, UNCHANGED catalog, Mcp!PolicyChanges
  PROVE  Sound' /\ executors' = executors
<1>1. PICK hosts \in SUBSET Hosts :
        /\ allowed' = hosts
        /\ asked' = [c \in Callers |-> [asked[c] EXCEPT !.permitted =
                                          IF flow[c].pc = "idle" THEN @ ELSE @ \union hosts]]
  BY DEF Mcp!PolicyChanges, Mcp!At
<1>2. UNCHANGED <<flow, nextID, session, ready, executors, server>>
  BY DEF Mcp!PolicyChanges, Mcp!client
<1>3. ASSUME NEW c \in Callers
      PROVE  Local(flow[c], asked'[c], hosts, server, catalog)
  <2> DEFINE p == IF flow[c].pc = "idle" THEN asked[c].permitted ELSE asked[c].permitted \union hosts
             h == [asked[c] EXCEPT !.permitted = p]
  <2>1. /\ asked'[c] = h /\ Local(flow[c], asked[c], allowed, server, catalog)
        /\ asked[c] \in AskedType
    BY <1>1, CallerFacts
  <2>2. p \in SUBSET Hosts /\ asked[c].permitted \subseteq p /\ (flow[c].pc # "idle" => hosts \subseteq p)
    BY <2>1 DEF AskedType
  <2> HIDE DEF p
  <2>3. /\ h \in AskedType /\ h.permitted = p /\ h.requests = asked[c].requests
        /\ h.due = asked[c].due /\ h.misled = asked[c].misled
    BY <2>1, <2>2 DEF AskedType
  <2> HIDE DEF h
  <2>4. Routed(flow[c], h, hosts)
    BY <2>1, <2>2, <2>3 DEF Local, Routed
  <2>5. Underway(flow[c], asked[c], catalog) => Underway(flow[c], h, catalog)
    BY <2>3 DEF Underway, Paging
  <2>6. Picked(flow[c], h) /\ Listing(flow[c], h, catalog)
    BY <2>1, <2>3 DEF Local, Picked, Listing
  <2> QED
    BY <2>1, <2>3, <2>4, <2>5, <2>6 DEF Local
<1>4. DOMAIN asked' = Callers /\ asked' = [c \in Callers |-> asked'[c]]
  BY <1>1
<1>5. Ids' /\ Handshake'
  BY <1>2 DEF Sound, Ids, Handshake
<1> QED
  BY <1>1, <1>2, <1>3, <1>4, <1>5 DEF Sound

LEMMA McpStep == McpSound /\ [Mcp!Next]_(Mcp!vars) => McpSound'
<1> SUFFICES ASSUME Sound, Mcp!NamesUnique, [Mcp!Next]_(Mcp!vars)
             PROVE  Sound' /\ Mcp!NamesUnique'
  BY DEF McpSound
<1>1. CASE Mcp!PolicyChanges /\ UNCHANGED catalog
  BY <1>1, PolicyStep DEF Mcp!NamesUnique
<1>2. ASSUME NEW c \in Callers, Mcp!Step(c), UNCHANGED <<allowed, catalog>>
      PROVE  Sound' /\ Mcp!NamesUnique'
  <2>1. CASE Mcp!Connect(c) \/ Mcp!CallTool(c) \/ Mcp!ListTools(c)
    BY <1>2, <2>1, BeginStep DEF Mcp!NamesUnique
  <2>2. CASE \/ Mcp!Guard(c) \/ Mcp!Send(c) \/ (\E host \in Hosts : Mcp!Redirect(c, host))
             \/ (\E sid \in 0 .. 1 : Mcp!Answer(c, sid)) \/ Mcp!GiveUp(c) \/ Mcp!Acknowledged(c)
             \/ Mcp!Reject(c)
    BY <1>2, <2>2, PostStep DEF Mcp!NamesUnique
  <2>3. CASE Mcp!Initialized(c) \/ Mcp!FirstPage(c)
    BY <1>2, <2>3, HandshakeStep DEF Mcp!NamesUnique
  <2>4. CASE Mcp!ReadPage(c)
    BY <1>2, <2>4, ReadPageStep
  <2>5. CASE Mcp!CallReturns(c)
    BY <1>2, <2>5, CallReturnsStep DEF Mcp!NamesUnique
  <2>6. ASSUME NEW b \in Bodies, Mcp!Parse(c, b)
        PROVE  Sound' /\ Mcp!NamesUnique'
    BY <1>2, <2>6, ParseStep DEF Mcp!NamesUnique
  <2> QED
    BY <1>2, <2>1, <2>2, <2>3, <2>4, <2>5, <2>6 DEF Mcp!Step
<1>3. CASE UNCHANGED Mcp!vars
  <2>1. UNCHANGED <<catalog, nextID, session, ready, flow, executors, allowed, server, asked>>
    BY <1>3 DEF Mcp!vars, Mcp!client
  <2>2. Sound'
    BY <2>1 DEF Sound, Ids, Handshake
  <2> QED
    BY <2>1, <2>2 DEF Mcp!NamesUnique
<1> QED
  BY <1>1, <1>2, <1>3 DEF Mcp!Next

LEMMA McpStart == Mcp!Init => McpSound
<1> SUFFICES ASSUME Mcp!Init PROVE McpSound
  OBVIOUS
<1> DEFINE f == Mcp!Idle
           h == [requests |-> 0, permitted |-> {}, due |-> FALSE, misled |-> FALSE]
<1>1. /\ catalog \in Catalogs /\ nextID = 0 /\ session = 0 /\ ready = FALSE /\ server = 0
      /\ flow = [c \in Callers |-> f] /\ asked = [c \in Callers |-> h]
      /\ executors = <<>> /\ allowed \subseteq Hosts
  BY DEF Mcp!Init
<1>2. /\ f \in FlowType /\ f.pc = "idle" /\ f.id = 0 /\ f.end = "none"
  <2>1. <<>> \in Seq(RemoteTool)
    OBVIOUS
  <2> QED
    BY <2>1 DEF Mcp!Idle, FlowType
<1>3. h \in AskedType /\ h.requests = 0 /\ h.requests <= MaxPages + 2
  BY LimitAssumption DEF AskedType
<1> HIDE DEF f, h
<1>4. Local(f, h, allowed, server, catalog)
  BY <1>2, <1>3 DEF Local, Routed, Picked, Listing, Working
<1>5. Ids /\ Handshake
  BY <1>1, <1>2 DEF Ids, Handshake, Shaking, Working
<1>6. DOMAIN executors = {}
  BY <1>1
<1>7. Mcp!NamesUnique
  BY <1>6 DEF Mcp!NamesUnique
<1>8. \A c \in Callers : flow[c] = f /\ asked[c] = h
  BY <1>1
<1>9. DOMAIN flow = Callers /\ DOMAIN asked = Callers /\ flow = [c \in Callers |-> flow[c]]
      /\ asked = [c \in Callers |-> asked[c]]
  BY <1>1
<1>10. \A c \in Callers : Local(flow[c], asked[c], allowed, server, catalog)
  BY <1>4, <1>8
<1>11. /\ catalog \in Catalogs /\ ready \in BOOLEAN /\ allowed \subseteq Hosts
       /\ session = server /\ nextID = 0 /\ server = 0
  BY <1>1, Zenon
<1>12. nextID \in Nat /\ server \in 0 .. 1
  BY <1>11
<1> QED
  BY <1>5, <1>7, <1>9, <1>10, <1>11, <1>12 DEF McpSound, Sound

LEMMA McpSoundSafe == McpSound => McpKept
<1> SUFFICES ASSUME Sound, Mcp!NamesUnique PROVE McpKept
  BY DEF McpSound
<1>1. Mcp!OwnResponse
  BY CallerFacts DEF Mcp!OwnResponse, Mcp!At, Sound, Ids, Local, Picked
<1>2. Mcp!Authorized
  BY CallerFacts DEF Mcp!Authorized, Local, Routed
<1>3. Mcp!SessionEchoed
  BY CallerFacts DEF Mcp!SessionEchoed, Local
<1>4. Mcp!ListingBounded
  BY CallerFacts DEF Mcp!ListingBounded, Local, Listing
<1> QED
  BY <1>1, <1>2, <1>3, <1>4 DEF McpKept, Mcp!McpKept

(* Several goroutines on one client: every response is that of its own     *)
(* request, every hop is one that the policy allowed, the session is the   *)
(* server's, a listing is bounded and whole, and no adopted name is        *)
(* shadowed (transport_http.go, client.go, executor.go).                   *)
THEOREM ClientSafe == Mcp!Spec => []McpKept
BY McpStart, McpStep, McpSoundSafe, PTL DEF Mcp!Spec

-----------------------------------------------------------------------------
(* The scenes side by side. *)

(* A process that dispatches calls and talks to a tool server keeps what   *)
(* both promise: neither disturbs the other (agentic/orchestrator.go,      *)
(* mcpclient/client.go).                                                   *)
THEOREM ToolsSafe == TSpec => [](LoopsBounded /\ GatesHold /\ McpKept)
<1>1. TInit => Init /\ Mcp!Init
  BY DEF TInit
<1>2. [TNext]_<<vars, mcp, scene>> => [Next]_vars
  BY DEF TNext
<1>3. [TNext]_<<vars, mcp, scene>> => [Mcp!Next]_(Mcp!vars)
  BY DEF TNext, mcp, Mcp!vars, Mcp!client
<1>4. TSpec => Spec /\ Mcp!Spec
  BY <1>1, <1>2, <1>3, PTL DEF TSpec, Spec, Mcp!Spec
<1> QED
  BY <1>4, LoopsSafe, GatesSafe, ClientSafe, PTL
=============================================================================
