-------------------------- MODULE ConversationProofs --------------------------
(***************************************************************************)
(* Proofs about the turns of a session, for any calls, models, forks and   *)
(* bounds: a pause is durable and a task is kept (the first part), and a   *)
(* conversation stays whole, in the store, in a run and on the wire (from  *)
(* "Whole conversations" on).                                              *)
(***************************************************************************)
EXTENDS Conversation, OrderedProofs, SequenceTheorems, TLAPS

(* A list of turns, each with a list of calls.                             *)
Turns(ts) == IsList(ts) /\ \A i \in DOMAIN ts : IsList(ts[i].calls)

(* A transcript that opens with the user.                                  *)
Headed(ts) == ts # <<>> /\ ts[1].role = "user"

Shape ==
    /\ Turns(turns) /\ Turns(conv) /\ Turns(kv.turns)
    /\ kv = [turns |-> kv.turns, paused |-> kv.paused] /\ kv.paused \in BOOLEAN /\ paused \in BOOLEAN
    /\ legs \in Nat

Kept == Shape /\ (running => Headed(conv)) /\ PauseDurable

(* What a restore message carries. *)
Posted == Turns(offered)

-----------------------------------------------------------------------------
(* Least numbers and chosen elements. *)

(* Some number of a set is the least.                                      *)
LEMMA LeastOf ==
  ASSUME NEW S \in SUBSET Nat, S # {}
  PROVE  Min(S) \in S /\ \A y \in S : Min(S) <= y
BY LeastNumber DEF Min

(* The elements of a list that are chosen make one, each from its place.   *)
LEMMA ChosenList ==
  ASSUME NEW cs, IsList(cs), NEW S \in SUBSET DOMAIN cs
  PROVE  LET r == Chosen(cs, S)
         IN  /\ IsList(r) /\ Len(r) = Cardinality(S) /\ IsFiniteSet(S)
             /\ \A n \in 1 .. Len(r) : InOrder(S)[n] \in S /\ r[n] = cs[InOrder(S)[n]]
             /\ \A i \in S : \E n \in 1 .. Len(r) : r[n] = cs[i]
             /\ IsInjective(cs) => IsInjective(r)
<1>1. S \in SUBSET (1 .. Len(cs)) /\ DOMAIN cs = 1 .. Len(cs) /\ Len(cs) \in Nat
  BY ListFacts
<1>2. IsFiniteSet(S) /\ S \in SUBSET Nat
  <2>1. IsFiniteSet(1 .. Len(cs))
    BY <1>1, FS_Interval
  <2> QED
    BY <1>1, <2>1, FS_Subset
<1> DEFINE r == Chosen(cs, S)
<1>3. /\ Cardinality(S) \in Nat
      /\ r = [n \in 1 .. Cardinality(S) |-> r[n]]
      /\ \A n \in 1 .. Cardinality(S) : r[n] = cs[InOrder(S)[n]] /\ InOrder(S)[n] \in S
      /\ \A i \in S : \E n \in 1 .. Cardinality(S) : InOrder(S)[n] = i
  <2>1. /\ Cardinality(S) \in Nat
        /\ Chosen(cs, S) = [n \in 1 .. Cardinality(S) |-> Chosen(cs, S)[n]]
    BY <1>2, ChosenFacts
  <2>2. \A n \in 1 .. Cardinality(S) : Chosen(cs, S)[n] = cs[InOrder(S)[n]] /\ InOrder(S)[n] \in S
    BY <1>2, ChosenFacts
  <2>3. \A i \in S : \E n \in 1 .. Cardinality(S) : InOrder(S)[n] = i
    BY <1>2, ChosenFacts
  <2> QED
    BY <2>1, <2>2, <2>3
<1> HIDE DEF r
<1>4. IsList(r) /\ Len(r) = Cardinality(S) /\ DOMAIN r = 1 .. Cardinality(S)
  BY <1>3, ListIntro
<1>5. ASSUME IsInjective(cs), NEW m \in 1 .. Cardinality(S), NEW n \in 1 .. Cardinality(S), r[m] = r[n]
      PROVE  m = n
  <2>1. InOrder(S)[m] = InOrder(S)[n] /\ InOrder(S)[m] \in Nat
    BY <1>1, <1>3, <1>5 DEF IsInjective
  <2>2. ~(m < n) /\ ~(n < m)
    BY <1>2, <2>1, InOrderGrows
  <2> QED
    BY <1>3, <2>2
<1>6. IsInjective(cs) => IsInjective(r)
  BY <1>4, <1>5 DEF IsInjective
<1> QED
  BY <1>2, <1>3, <1>4, <1>6 DEF r

-----------------------------------------------------------------------------
(* Lists of turns. *)

(* A turn more, a list of turns more, turns less.                          *)
LEMMA TurnsAppend ==
  ASSUME NEW ts, Turns(ts), NEW t, IsList(t.calls)
  PROVE  Turns(Append(ts, t))
<1>1. DOMAIN Append(ts, t) = 1 .. Len(ts) + 1 /\ Len(ts) \in Nat /\ DOMAIN ts = 1 .. Len(ts)
  BY ListAppend, ListFacts DEF Turns
<1>2. ASSUME NEW i \in 1 .. Len(ts) + 1
      PROVE  IsList(Append(ts, t)[i].calls)
  <2>1. i \in 1 .. Len(ts) \/ i = Len(ts) + 1
    BY <1>1
  <2> QED
    BY <1>1, <2>1, ListAppend DEF Turns
<1> QED
  BY <1>1, <1>2, ListAppend DEF Turns

(* Concatenated.                                                           *)
LEMMA TurnsConcat ==
  ASSUME NEW ts, Turns(ts), NEW us, Turns(us)
  PROVE  Turns(ts \o us)
<1> DEFINE r == ts \o us
<1>1. /\ IsList(ts) /\ IsList(us) /\ Len(ts) \in Nat /\ Len(us) \in Nat
      /\ DOMAIN ts = 1 .. Len(ts) /\ DOMAIN us = 1 .. Len(us)
  BY ListFacts DEF Turns
<1>2. /\ IsList(r) /\ Len(r) = Len(ts) + Len(us)
      /\ \A i \in 1 .. Len(ts) + Len(us) : r[i] = IF i <= Len(ts) THEN ts[i] ELSE us[i - Len(ts)]
  BY <1>1, ListConcat
<1> HIDE DEF r
<1>3. DOMAIN r = 1 .. Len(ts) + Len(us)
  BY <1>2, ListFacts
<1>4. ASSUME NEW i \in 1 .. Len(ts) + Len(us)
      PROVE  IsList(r[i].calls)
  <2>1. i \in 1 .. Len(ts) \/ (~(i <= Len(ts)) /\ i - Len(ts) \in 1 .. Len(us))
    BY <1>1
  <2> QED
    BY <1>1, <1>2, <2>1 DEF Turns
<1> QED
  BY <1>2, <1>3, <1>4 DEF Turns, r

(* From a place on.                                                        *)
LEMMA TurnsSub ==
  ASSUME NEW ts, Turns(ts), NEW m \in Nat \ {0}, m <= Len(ts) + 1
  PROVE  Turns(SubSeq(ts, m, Len(ts)))
<1> DEFINE r == SubSeq(ts, m, Len(ts))
<1>1. /\ IsList(r) /\ \A i \in 1 .. Len(r) : r[i] = ts[m + i - 1] /\ m + i - 1 \in 1 .. Len(ts)
  BY ListSub DEF Turns
<1> HIDE DEF r
<1>2. DOMAIN r = 1 .. Len(r) /\ DOMAIN ts = 1 .. Len(ts)
  BY <1>1, ListFacts DEF Turns
<1> QED
  BY <1>1, <1>2 DEF Turns, r

-----------------------------------------------------------------------------
(* What shortens a conversation. *)

(* The assistant turn that only results follow.                            *)
Closing(ts, a) ==
    a \in DOMAIN ts /\ ts[a].role = "assistant" /\ \A k \in (a + 1) .. Len(ts) : ts[k].role = "tool"

(* The calls at some places of the list of that turn that have no result.  *)
Open(ts, a) == {n \in DOMAIN ts[a].calls : \A k \in (a + 1) .. Len(ts) : ts[k].id # ts[a].calls[n]}

(* The results that are made up for calls. *)
Made(cs) == [n \in DOMAIN cs |-> Synthetic(cs[n])]

(* They are a list of turns without calls.                                 *)
LEMMA MadeFacts ==
  ASSUME NEW cs, IsList(cs)
  PROVE  /\ Turns(Made(cs)) /\ Len(Made(cs)) = Len(cs)
         /\ \A n \in 1 .. Len(cs) : Made(cs)[n] = Synthetic(cs[n])
<1> DEFINE us == Made(cs)
<1>1. Len(cs) \in Nat /\ DOMAIN cs = 1 .. Len(cs)
  BY ListFacts
<1>2. us = [n \in 1 .. Len(cs) |-> us[n]]
  BY <1>1 DEF Made
<1>3. \A n \in 1 .. Len(cs) : us[n] = Synthetic(cs[n]) /\ us[n].calls = <<>>
  BY <1>1 DEF Made, Synthetic, Turn
<1> HIDE DEF us
<1>4. IsList(us) /\ DOMAIN us = 1 .. Len(cs) /\ Len(us) = Len(cs)
  BY <1>1, <1>2, ListIntro
<1>5. IsList(<<>>)
  BY DEF IsList, ToSet
<1> QED
  BY <1>3, <1>4, <1>5 DEF Turns, us

(* What closing adds: nothing, or the missing results of one turn's calls. *)
LEMMA CloseFacts ==
  ASSUME NEW ts, Turns(ts)
  PROVE  /\ (\A a \in DOMAIN ts : ~Closing(ts, a)) => CloseDanglingToolCalls(ts) = ts
         /\ \A a \in DOMAIN ts : Closing(ts, a) =>
              /\ CloseDanglingToolCalls(ts) = ts \o Made(Chosen(ts[a].calls, Open(ts, a)))
              /\ IsList(Chosen(ts[a].calls, Open(ts, a)))
<1> DEFINE last == {i \in DOMAIN ts : ts[i].role = "assistant"
                                      /\ \A k \in (i + 1) .. Len(ts) : ts[k].role = "tool"}
           Lost(i) == Chosen(ts[i].calls, Open(ts, i))
           m == Max(last)
<1>1. CloseDanglingToolCalls(ts) = IF last = {} THEN ts ELSE ts \o Made(Lost(m))
  BY DEF CloseDanglingToolCalls, Open, Made
<1>2. /\ Len(ts) \in Nat /\ DOMAIN ts = 1 .. Len(ts) /\ \A i \in DOMAIN ts : IsList(ts[i].calls)
  BY ListFacts DEF Turns
<1>3. (\A a \in DOMAIN ts : ~Closing(ts, a)) => last = {}
  BY DEF Closing
<1>4. ASSUME NEW a \in DOMAIN ts, Closing(ts, a)
      PROVE  last # {} /\ m = a
  <2>1. last = {a}
    <3>1. ASSUME NEW i \in last, i # a
          PROVE  FALSE
      <4>1. /\ i \in 1 .. Len(ts) /\ a \in 1 .. Len(ts)
            /\ ts[i].role = "assistant" /\ ts[a].role = "assistant"
            /\ \A k \in (i + 1) .. Len(ts) : ts[k].role = "tool"
            /\ \A k \in (a + 1) .. Len(ts) : ts[k].role = "tool"
        BY <1>2, <1>4, <3>1 DEF Closing
      <4>2. i \in (a + 1) .. Len(ts) \/ a \in (i + 1) .. Len(ts)
        BY <1>2, <3>1, <4>1
      <4> QED
        BY <4>1, <4>2
    <3>2. a \in last
      BY <1>4 DEF Closing
    <3> HIDE DEF last
    <3> QED
      BY <3>1, <3>2
  <2>2. \A x \in {a} : x >= x
    BY <1>2
  <2> HIDE DEF last
  <2>3. Max({a}) = a
    <3>1. a >= a
      BY <1>2
    <3> QED
      BY <3>1, Zenon DEF Max
  <2> QED
    BY <2>1, <2>3
<1>5. \A a \in DOMAIN ts : IsList(Lost(a))
  <2>1. SUFFICES ASSUME NEW a \in DOMAIN ts PROVE IsList(Lost(a))
    OBVIOUS
  <2>2. Open(ts, a) \in SUBSET DOMAIN ts[a].calls
    BY DEF Open
  <2> QED
    BY <1>2, <2>2, ChosenList
<1> HIDE DEF last, m
<1>6. (\A a \in DOMAIN ts : ~Closing(ts, a)) => CloseDanglingToolCalls(ts) = ts
  BY <1>1, <1>3
<1>7. \A a \in DOMAIN ts : Closing(ts, a) => CloseDanglingToolCalls(ts) = ts \o Made(Lost(a))
  BY <1>1, <1>4
<1> QED
  BY <1>5, <1>6, <1>7

LEMMA CloseTurns ==
  ASSUME NEW ts, Turns(ts)
  PROVE  Turns(CloseDanglingToolCalls(ts))
<1>1. CASE \A a \in DOMAIN ts : ~Closing(ts, a)
  BY <1>1, CloseFacts
<1>2. ASSUME NEW a \in DOMAIN ts, Closing(ts, a)
      PROVE  Turns(CloseDanglingToolCalls(ts))
  <2> DEFINE cs == Chosen(ts[a].calls, Open(ts, a))
  <2>1. CloseDanglingToolCalls(ts) = ts \o Made(cs) /\ IsList(cs)
    BY <1>2, CloseFacts
  <2> HIDE DEF cs
  <2> QED
    BY <2>1, MadeFacts, TurnsConcat
<1> QED
  BY <1>1, <1>2

(* A transcript that ends with the user has nothing to close.              *)
LEMMA CloseUser ==
  ASSUME NEW ts, Turns(ts), ts # <<>>, ts[Len(ts)].role = "user"
  PROVE  CloseDanglingToolCalls(ts) = ts
<1>1. Len(ts) \in Nat /\ DOMAIN ts = 1 .. Len(ts)
  BY ListFacts DEF Turns
<1>2. ASSUME NEW a \in DOMAIN ts, Closing(ts, a)
      PROVE  FALSE
  <2>1. a \in 1 .. Len(ts) /\ ts[a].role = "assistant" /\ \A k \in (a + 1) .. Len(ts) : ts[k].role = "tool"
    BY <1>1, <1>2 DEF Closing
  <2>2. a = Len(ts) \/ Len(ts) \in (a + 1) .. Len(ts)
    BY <1>1, <2>1
  <2> QED
    BY <2>1, <2>2
<1> QED
  BY <1>2, CloseFacts

(* The first user turn is where the healed transcript begins, and nothing  *)
(* behind it is lost.                                                      *)
LEMMA HealTurns ==
  ASSUME NEW ts, Turns(ts)
  PROVE  LET r == HealConversationHead(ts)
         IN  /\ Turns(r)
             /\ \A u \in 1 .. Len(ts) : ts[u].role = "user" =>
                  /\ Headed(r) /\ Len(r) >= Len(ts) - u + 1 /\ Len(r) \in Nat
                  /\ \A k \in u .. Len(ts) : r[Len(r) - (Len(ts) - k)] = ts[k]
<1> DEFINE users == {i \in DOMAIN ts : ts[i].role = "user"}
           r == HealConversationHead(ts)
           m == Min(users)
<1>1. Len(ts) \in Nat /\ DOMAIN ts = 1 .. Len(ts)
  BY ListFacts DEF Turns
<1>2. r = IF users = {} THEN ts ELSE SubSeq(ts, m, Len(ts))
  BY DEF HealConversationHead
<1>3. CASE users = {}
  BY <1>1, <1>2, <1>3
<1>4. CASE users # {}
  <2>1. users \in SUBSET Nat
    BY <1>1
  <2>2. m \in users /\ \A u \in users : m <= u
    <3> HIDE DEF users
    <3> QED
      BY <1>4, <2>1, LeastOf
  <2>3. m \in 1 .. Len(ts) /\ ts[m].role = "user"
    BY <1>1, <2>2
  <2> HIDE DEF m, r
  <2>4. r = SubSeq(ts, m, Len(ts)) /\ m \in Nat \ {0} /\ m <= Len(ts) + 1
    BY <1>1, <1>2, <1>4, <2>3
  <2>5. Turns(r)
    BY <2>4, TurnsSub
  <2>6. /\ Len(r) = Len(ts) - m + 1 /\ IsList(r)
        /\ \A i \in 1 .. Len(r) : r[i] = ts[m + i - 1]
    BY <2>4, ListSub DEF Turns
  <2>7. Headed(r)
    <3>1. Len(r) # 0 /\ 1 \in 1 .. Len(r) /\ m + 1 - 1 = m
      BY <1>1, <2>3, <2>6
    <3>2. r # <<>>
      BY <2>6, <3>1, ListFacts
    <3> QED
      BY <2>3, <2>6, <3>1, <3>2 DEF Headed
  <2>8. ASSUME NEW u \in 1 .. Len(ts), ts[u].role = "user"
        PROVE  /\ Len(r) >= Len(ts) - u + 1 /\ Len(r) \in Nat
               /\ \A k \in u .. Len(ts) : r[Len(r) - (Len(ts) - k)] = ts[k]
    <3>1. m <= u
      BY <1>1, <2>2, <2>8
    <3>2. ASSUME NEW k \in u .. Len(ts)
          PROVE  r[Len(r) - (Len(ts) - k)] = ts[k]
      <4>1. /\ Len(r) - (Len(ts) - k) \in 1 .. Len(r)
            /\ m + (Len(r) - (Len(ts) - k)) - 1 = k
        BY <1>1, <2>3, <2>6, <3>1
      <4> QED
        BY <2>6, <4>1
    <3> QED
      BY <1>1, <2>3, <2>6, <3>1, <3>2
  <2> QED
    BY <2>5, <2>7, <2>8 DEF r
<1> QED
  BY <1>3, <1>4

(* Trimming keeps the end.                                                 *)
LEMMA TrimTurns ==
  ASSUME NEW ts, Turns(ts)
  PROVE  /\ Turns(Trim(ts)) /\ (Len(ts) <= Hard => Trim(ts) = ts)
         /\ ts # <<>> => Trim(ts) # <<>> /\ Trim(ts)[Len(Trim(ts))] = ts[Len(ts)]
<1> DEFINE m == Len(ts) - Target + 1
           r == SubSeq(ts, m, Len(ts))
<1>1. Len(ts) \in Nat /\ Hard \in Nat \ {0} /\ Target \in Nat \ {0} /\ Target <= Hard
  BY ListFacts, BoundsAssumption DEF Turns
<1>2. CASE ~(Len(ts) > Hard)
  BY <1>1, <1>2 DEF Trim
<1>3. CASE Len(ts) > Hard
  <2>1. Trim(ts) = r /\ m \in Nat \ {0} /\ m <= Len(ts) + 1
    BY <1>1, <1>3 DEF Trim
  <2>2. /\ IsList(r) /\ Len(r) = Len(ts) - m + 1
        /\ \A i \in 1 .. Len(r) : r[i] = ts[m + i - 1]
    <3> HIDE DEF m
    <3> QED
      BY <2>1, ListSub DEF Turns
  <2>3. Turns(r)
    <3> HIDE DEF m
    <3> QED
      BY <2>1, TurnsSub
  <2> HIDE DEF r
  <2>4. Len(r) = Target /\ Len(r) \in 1 .. Len(r) /\ m + Len(r) - 1 = Len(ts)
    BY <1>1, <2>2
  <2>5. r # <<>> /\ r[Len(r)] = ts[Len(ts)]
    BY <1>1, <2>2, <2>4, ListFacts
  <2> QED
    BY <1>1, <1>3, <2>1, <2>3, <2>5
<1> QED
  BY <1>2, <1>3

(* Bound, of any transcript; of one that ends with the user; of a short    *)
(* one.                                                                    *)
LEMMA BoundTurns ==
  ASSUME NEW ts, Turns(ts)
  PROVE  Turns(Bound(ts))
BY CloseTurns, TrimTurns, HealTurns DEF Bound

(* A run's transcript opens with the user.                                 *)
LEMMA BoundUser ==
  ASSUME NEW ts, Turns(ts), NEW t, IsList(t.calls), t.role = "user"
  PROVE  Turns(Bound(Append(ts, t))) /\ Headed(Bound(Append(ts, t)))
<1> DEFINE us == Append(ts, t)
           vs == Trim(us)
<1>1. Turns(us)
  BY TurnsAppend
<1>2. us # <<>> /\ us[Len(us)].role = "user"
  BY ListAppend, ListFacts DEF Turns
<1> HIDE DEF us
<1>3. Bound(us) = HealConversationHead(vs)
  BY <1>1, <1>2, CloseUser DEF Bound
<1>4. Turns(vs) /\ vs # <<>> /\ vs[Len(vs)].role = "user"
  BY <1>1, <1>2, TrimTurns
<1> HIDE DEF vs
<1>5. Len(vs) \in 1 .. Len(vs)
  BY <1>4, ListFacts DEF Turns
<1>6. Headed(HealConversationHead(vs)) /\ Turns(HealConversationHead(vs))
  BY <1>4, <1>5, HealTurns
<1> QED
  BY <1>3, <1>6 DEF us

(* A continued run sees the last turn of the paused one.                   *)
LEMMA BoundShort ==
  ASSUME NEW ts, Turns(ts), NEW t, IsList(t.calls), t.role = "user",
         Len(ts) < Hard, HasUser(ts)
  PROVE  LET c == Bound(Append(ts, t))
         IN  Len(c) > 1 /\ c[Len(c) - 1] = ts[Len(ts)]
<1> DEFINE us == Append(ts, t)
           c == HealConversationHead(us)
<1>1. Len(ts) \in Nat /\ DOMAIN ts = 1 .. Len(ts) /\ Hard \in Nat
  BY ListFacts, BoundsAssumption DEF Turns
<1>2. /\ Turns(us) /\ Len(us) = Len(ts) + 1 /\ us[Len(ts) + 1] = t
      /\ \A i \in 1 .. Len(ts) : us[i] = ts[i]
  BY TurnsAppend, ListAppend DEF Turns
<1> HIDE DEF us
<1>3. us # <<>> /\ us[Len(us)].role = "user" /\ Len(us) <= Hard
  BY <1>1, <1>2, ListFacts DEF Turns
<1>4. Bound(us) = c
  BY <1>2, <1>3, CloseUser, TrimTurns DEF Bound
<1>5. PICK u \in 1 .. Len(ts) : ts[u].role = "user"
  BY <1>1 DEF HasUser
<1>6. u \in 1 .. Len(us) /\ us[u].role = "user" /\ Len(ts) \in u .. Len(us)
  BY <1>1, <1>2, <1>5
<1>7. /\ Len(c) >= Len(us) - u + 1 /\ Len(c) \in Nat
      /\ c[Len(c) - (Len(us) - Len(ts))] = us[Len(ts)]
  BY <1>2, <1>6, HealTurns
<1> HIDE DEF c
<1>8. Len(c) > 1 /\ Len(c) - (Len(us) - Len(ts)) = Len(c) - 1 /\ us[Len(ts)] = ts[Len(ts)]
  BY <1>1, <1>2, <1>5, <1>7
<1> QED
  BY <1>4, <1>7, <1>8 DEF us

(* The task of a transcript that opens with the user is that of its first  *)
(* turn.                                                                   *)
LEMMA OpeningOf ==
  ASSUME NEW ts, Turns(ts), Headed(ts)
  PROVE  Opening(ts) = ts[1].brief
<1> DEFINE users == {i \in DOMAIN ts : ts[i].role = "user"}
<1>1. Len(ts) \in Nat /\ DOMAIN ts = 1 .. Len(ts) /\ Len(ts) # 0
  BY ListFacts DEF Turns, Headed
<1>2. 1 \in users /\ \A i \in users : i \in Nat /\ 1 <= i
  BY <1>1 DEF Headed
<1>3. Opening(ts) = IF users = {} THEN 0 ELSE ts[Min(users)].brief
  BY DEF Opening
<1> HIDE DEF users
<1>4. Min(users) = 1
  <2>1. Min(users) \in users /\ \A y \in users : Min(users) <= y
    BY <1>2 DEF Min
  <2> QED
    BY <1>2, <2>1
<1> QED
  BY <1>2, <1>3, <1>4

(* What is added behind leaves the head.                                   *)
LEMMA GrowTurns ==
  ASSUME NEW ts, Turns(ts), Headed(ts), NEW us, Turns(us)
  PROVE  Turns(ts \o us) /\ Headed(ts \o us) /\ (ts \o us)[1] = ts[1]
<1> DEFINE r == ts \o us
<1>1. Len(ts) \in Nat \ {0} /\ Len(us) \in Nat
  BY ListFacts DEF Turns, Headed
<1>2. IsList(r) /\ Len(r) = Len(ts) + Len(us) /\ r[1] = ts[1]
  BY <1>1, ListConcat DEF Turns
<1> HIDE DEF r
<1>3. r # <<>>
  BY <1>1, <1>2, ListFacts
<1> QED
  BY <1>2, <1>3, TurnsConcat DEF Headed, r

(* Compaction puts the task of the first turn into the summary.            *)
LEMMA CompactTurns ==
  ASSUME NEW c, Turns(c), Headed(c)
  PROVE  Turns(Compacted(c)) /\ Headed(Compacted(c)) /\ Compacted(c)[1].brief = c[1].brief
<1> DEFINE m == SafeCut(c) + 1
           head == <<Summary(c[1])>>
           rest == SubSeq(c, m, Len(c))
<1>1. Len(c) \in Nat /\ KeepRecent \in Nat
  BY ListFacts, BoundsAssumption DEF Turns
<1>2. SafeCut(c) \in 0 .. Len(c)
  <2> DEFINE desired == Len(c) - KeepRecent
             safe == {i \in desired .. (Len(c) - 1) : c[i + 1].role # "tool"}
  <2>1. SafeCut(c) = IF desired <= 0 \/ safe = {} THEN 0 ELSE Min(safe)
    BY DEF SafeCut
  <2>2. desired \in Int
    BY <1>1
  <2>3. ~(desired <= 0) => safe \in SUBSET (0 .. Len(c))
    BY <1>1
  <2> HIDE DEF safe, desired
  <2>4. ~(desired <= 0) /\ safe # {} => Min(safe) \in safe
    <3>1. \A x \in 0 .. Len(c) : x \in Nat
      BY <1>1
    <3> QED
      BY <2>3, <3>1, LeastOf
  <2> QED
    BY <1>1, <2>1, <2>3, <2>4
<1>3. CASE Len(c) <= KeepRecent + 1 \/ SafeCut(c) = 0
  BY <1>3 DEF Compacted
<1>4. CASE ~(Len(c) <= KeepRecent + 1 \/ SafeCut(c) = 0)
  <2>1. Compacted(c) = head \o rest
    BY <1>4 DEF Compacted
  <2>2. Summary(c[1]).role = "user" /\ Summary(c[1]).calls = <<>> /\ Summary(c[1]).brief = c[1].brief
    BY DEF Summary, User, Turn, Headed
  <2>3. Turns(head) /\ Headed(head) /\ head[1] = Summary(c[1])
    <3> DEFINE d == Summary(c[1])
    <3> HIDE DEF d
    <3>1. <<d>> = [i \in 1 .. 1 |-> <<d>>[i]] /\ 1 \in Nat /\ <<d>>[1] = d /\ <<d>> # <<>>
      OBVIOUS
    <3>2. IsList(<<d>>) /\ DOMAIN <<d>> = 1 .. 1
      BY <3>1, ListIntro
    <3>3. IsList(<<>>)
      BY DEF IsList, ToSet
    <3>4. d.calls = <<>> /\ d.role = "user"
      BY <2>2 DEF d
    <3>5. \A i \in 1 .. 1 : <<d>>[i] = d
      OBVIOUS
    <3>6. Turns(<<d>>) /\ Headed(<<d>>)
      BY <3>1, <3>2, <3>3, <3>4, <3>5 DEF Turns, Headed
    <3> QED
      BY <3>1, <3>6 DEF d
  <2>4. m \in Nat \ {0} /\ m <= Len(c) + 1
    BY <1>1, <1>2
  <2> HIDE DEF m
  <2>5. Turns(rest)
    BY <2>4, TurnsSub
  <2> HIDE DEF rest, head
  <2>6. /\ Turns(head \o rest) /\ Headed(head \o rest)
        /\ (head \o rest)[1] = head[1]
    BY <2>3, <2>5, GrowTurns
  <2> QED
    BY <2>1, <2>2, <2>3, <2>6
<1> QED
  BY <1>3, <1>4

(* A turn at the end leaves the head.                                      *)
LEMMA AppendTurns ==
  ASSUME NEW ts, Turns(ts), NEW t, IsList(t.calls)
  PROVE  Turns(Append(ts, t)) /\ (Headed(ts) => Headed(Append(ts, t)) /\ Append(ts, t)[1] = ts[1])
<1> DEFINE r == Append(ts, t)
<1>1. Turns(r)
  BY TurnsAppend
<1>2. /\ IsList(r) /\ Len(r) = Len(ts) + 1 /\ Len(ts) \in Nat
      /\ \A i \in 1 .. Len(ts) : r[i] = ts[i]
  BY ListAppend, ListFacts DEF Turns
<1> HIDE DEF r
<1>3. ASSUME Headed(ts)
      PROVE  Headed(r) /\ r[1] = ts[1]
  <2>1. Len(ts) # 0
    BY <1>3, ListFacts DEF Headed, Turns
  <2>2. r[1] = ts[1] /\ r # <<>>
    BY <1>2, <2>1, ListFacts
  <2> QED
    BY <1>3, <2>2 DEF Headed
<1> QED
  BY <1>1, <1>3 DEF r

(* Calls and their results at the end, as well.                            *)
LEMMA CalledTurns ==
  ASSUME NEW ts, Turns(ts), NEW cs \in CallLists, NEW n \in Nat
  PROVE  LET r == Append(ts, Assistant(cs)) \o Ran(cs, n)
         IN  Turns(r) /\ (Headed(ts) => Headed(r) /\ r[1] = ts[1])
<1> DEFINE us == Append(ts, Assistant(cs))
           vs == Ran(cs, n)
<1>1. IsList(Assistant(cs).calls)
  BY CallsAssumption DEF Assistant, Turn
<1>2. Turns(us) /\ (Headed(ts) => Headed(us) /\ us[1] = ts[1])
  <2> DEFINE t == Assistant(cs)
  <2>1. IsList(t.calls)
    BY <1>1
  <2> HIDE DEF t
  <2>2. Turns(Append(ts, t)) /\ (Headed(ts) => Headed(Append(ts, t)) /\ Append(ts, t)[1] = ts[1])
    BY <2>1, AppendTurns
  <2> QED
    BY <2>2 DEF t
<1>3. Turns(vs)
  <2>1. vs = [k \in 1 .. n |-> vs[k]] /\ \A k \in 1 .. n : vs[k].calls = <<>>
    BY DEF Ran, ToolTurn, Turn
  <2>2. IsList(<<>>)
    BY DEF IsList, ToSet
  <2> HIDE DEF vs
  <2>3. IsList(vs) /\ DOMAIN vs = 1 .. n
    BY <2>1, ListIntro
  <2> QED
    BY <2>1, <2>2, <2>3 DEF Turns
<1> HIDE DEF us, vs
<1>4. Turns(us \o vs)
  BY <1>2, <1>3, TurnsConcat
<1>5. Headed(ts) => Headed(us \o vs) /\ (us \o vs)[1] = ts[1]
  BY <1>2, <1>3, GrowTurns
<1> QED
  BY <1>4, <1>5 DEF us, vs

-----------------------------------------------------------------------------
(* The steps. *)

Pinned  == running /\ running' /\ legs' = legs => Opening(conv') = Opening(conv)

(* A run that starts, on a prompt or after the one before.                 *)
LEMMA StartStep ==
  ASSUME Shape, NEW ts, Turns(ts), NEW t, IsList(t.calls), t.role = "user",
         StartPrompt(ts, t), kv' = kv
  PROVE  Kept' /\ Pinned
<1>1. /\ legs' = legs + 1 /\ paused' = FALSE /\ turns' = Bound(Append(ts, t)) /\ conv' = turns'
      /\ running' = TRUE
  BY DEF StartPrompt
<1>2. Turns(turns') /\ Headed(turns')
  BY <1>1, BoundUser
<1>3. legs' # legs /\ legs' \in Nat
  BY <1>1 DEF Shape
<1> QED
  BY <1>1, <1>2, <1>3 DEF Kept, Shape, PauseDurable, Pinned, Turns, Headed

(* A user turn, typed or left by a pause.                                  *)
LEMMA UserTurn ==
  ASSUME NEW b
  PROVE  User(b).role = "user" /\ IsList(User(b).calls)
BY DEF User, Turn, IsList, ToSet

(* A run that ends: the pause is written whatever was written before.      *)
LEMMA FinishStep ==
  ASSUME Shape, NEW c, Turns(c), NEW interrupted \in BOOLEAN, Finish(c, interrupted)
  PROVE  Kept' /\ Pinned
<1> DEFINE ts == Bound(IF interrupted THEN CloseDanglingToolCalls(c) ELSE c)
<1>1. Turns(ts)
  BY CloseTurns, BoundTurns
<1>2. IF queued # 0
        THEN StartPrompt(ts, User(queued)) /\ UNCHANGED <<kv, recent>>
        ELSE /\ turns' = ts /\ paused' = interrupted /\ PersistPause(ts, interrupted)
             /\ conv' = <<>> /\ running' = FALSE /\ legs' = legs
  BY DEF Finish
<1> HIDE DEF ts
<1>3. CASE queued # 0
  BY <1>1, <1>2, <1>3, StartStep, UserTurn
<1>4. CASE queued = 0
  <2>1. \/ kv' = [turns |-> ts, paused |-> interrupted]
        \/ ~interrupted /\ kv' = kv
    BY <1>2, <1>4 DEF PersistPause, Persist
  <2>2. Turns(<<>>)
    BY DEF Turns, IsList, ToSet
  <2>3. Turns(conv') /\ Turns(turns')
    BY <1>1, <1>2, <1>4, <2>2
  <2>4. /\ Turns(kv'.turns) /\ kv' = [turns |-> kv'.turns, paused |-> kv'.paused]
        /\ kv'.paused \in BOOLEAN
    BY <1>1, <2>1 DEF Shape
  <2>5. Shape'
    BY <1>2, <1>4, <2>3, <2>4 DEF Shape, Turns
  <2>6. PauseDurable'
    <3>1. CASE interrupted
      <4>1. kv' = [turns |-> ts, paused |-> TRUE]
        BY <2>1, <3>1
      <4>2. kv'.turns = ts /\ kv'.paused
        BY <4>1
      <4> QED
        BY <1>2, <1>4, <4>2 DEF PauseDurable
    <3>2. CASE ~interrupted
      BY <1>2, <1>4, <3>2 DEF PauseDurable
    <3> QED
      BY <3>1, <3>2
  <2> QED
    BY <1>2, <1>4, <2>5, <2>6 DEF Kept, Pinned
<1> QED
  BY <1>3, <1>4

(* A run whose transcript grows or is compacted.                           *)
LEMMA RunStep ==
  ASSUME Kept, running, Turns(conv'), Headed(conv'), conv'[1].brief = conv[1].brief,
         UNCHANGED <<session, running, up, legs>>
  PROVE  Kept' /\ Pinned
<1>1. Turns(conv) /\ Headed(conv)
  BY DEF Kept, Shape
<1>2. Opening(conv') = Opening(conv)
  <2> DEFINE d == conv'
  <2>1. Turns(d) /\ Headed(d) /\ d[1].brief = conv[1].brief
    OBVIOUS
  <2> HIDE DEF d
  <2>2. Opening(d) = Opening(conv)
    BY <1>1, <2>1, OpeningOf
  <2> QED
    BY <2>2 DEF d
<1> QED
  BY <1>2 DEF Kept, Shape, PauseDurable, Pinned, session, Turns, Headed

(* A session that is replaced, restored, written, lost or left alone.      *)
LEMMA SessionStep ==
  ASSUME Kept, UNCHANGED legs,
         Turns(turns'), paused' \in BOOLEAN, Turns(kv'.turns), kv'.paused \in BOOLEAN,
         kv' = [turns |-> kv'.turns, paused |-> kv'.paused],
         \/ conv' = <<>> /\ ~running'
         \/ conv' = conv /\ running' = running,
         PauseDurable'
  PROVE  Kept' /\ Pinned
<1>1. Turns(<<>>)
  BY DEF Turns, IsList, ToSet
<1>2. Turns(conv') /\ (running' => Headed(conv'))
  BY <1>1 DEF Kept, Shape
<1>3. Shape'
  BY <1>2 DEF Kept, Shape, Turns
<1> QED
  BY <1>2, <1>3 DEF Kept, Pinned, Opening, Headed

(* The steps of a run.                                                     *)
LEMMA LoopStep ==
  ASSUME Kept,
         \/ Send \/ ReplyText \/ ReplyTruncated \/ ReplyError \/ Stop
         \/ \E cs \in CallLists : ReplyTools(cs) \/ ReplyQuestion(cs)
         \/ \E cs \in CallLists : \E n \in 1 .. Len(cs) : ReplyToolsCancelled(cs, n)
  PROVE  Kept' /\ Pinned
<1>1. Shape /\ Turns(conv) /\ (running => Headed(conv))
  BY DEF Kept, Shape
<1>2. IsList(Assistant(<<>>).calls)
  BY DEF Assistant, Turn, IsList, ToSet
<1>3. \A c \in Texts : Turns(c) /\ (Headed(conv) => Headed(c) /\ c[1] = conv[1])
  <2> DEFINE t == Assistant(<<>>)
  <2>1. IsList(t.calls) /\ Texts = {conv, Append(conv, t)}
    BY <1>2 DEF Texts
  <2> HIDE DEF t
  <2> QED
    BY <1>1, <2>1, AppendTurns
<1>4. \A cs \in CallLists : Len(cs) \in Nat
  BY CallsAssumption, ListFacts
<1>5. CASE Send
  <2>1. PICK c \in {conv, Compacted(conv)} : conv' = c
    BY <1>5 DEF Send
  <2>2. running /\ UNCHANGED <<session, running, up, legs>>
    BY <1>5 DEF Send
  <2>3. Turns(c) /\ Headed(c) /\ c[1].brief = conv[1].brief
    BY <1>1, <2>1, <2>2, CompactTurns
  <2>4. Turns(conv') /\ Headed(conv') /\ conv'[1].brief = conv[1].brief
    BY <2>1, <2>3
  <2> QED
    BY <2>2, <2>4, RunStep
<1>6. CASE ReplyText
  BY <1>1, <1>3, <1>6, FinishStep DEF ReplyText
<1>7. ASSUME NEW c, Turns(c), Headed(c), c[1] = conv[1], running, Grow(c)
      PROVE  Kept' /\ Pinned
  <2>1. conv' = c /\ UNCHANGED <<session, running, up, legs>>
    BY <1>7 DEF Grow
  <2>2. Turns(conv') /\ Headed(conv') /\ conv'[1].brief = conv[1].brief
    BY <1>7, <2>1
  <2> QED
    BY <1>7, <2>1, <2>2, RunStep
<1>8. CASE ReplyTruncated
  BY <1>1, <1>3, <1>7, <1>8 DEF ReplyTruncated, Waiting
<1>9. CASE ReplyError
  BY <1>1, <1>9, FinishStep DEF ReplyError
<1>10. CASE Stop
  BY <1>1, <1>10, FinishStep DEF Stop
<1>11. ASSUME NEW cs \in CallLists, ReplyTools(cs)
       PROVE  Kept' /\ Pinned
  <2> DEFINE r == Append(conv, Assistant(cs)) \o Ran(cs, Len(cs))
  <2>1. Turns(r) /\ (Headed(conv) => Headed(r) /\ r[1] = conv[1])
    BY <1>1, <1>4, CalledTurns
  <2>2. running /\ Grow(r)
    BY <1>11 DEF ReplyTools, Waiting
  <2> HIDE DEF r
  <2> QED
    BY <1>1, <1>7, <2>1, <2>2
<1>12. ASSUME NEW cs \in CallLists, ReplyQuestion(cs)
       PROVE  Kept' /\ Pinned
  <2> DEFINE r == Append(conv, Assistant(cs)) \o Ran(cs, Len(cs))
  <2>1. Turns(r)
    BY <1>1, <1>4, CalledTurns
  <2>2. Finish(r, TRUE)
    BY <1>12 DEF ReplyQuestion
  <2> HIDE DEF r
  <2> QED
    BY <1>1, <2>1, <2>2, FinishStep
<1>13. ASSUME NEW cs \in CallLists, NEW n \in 1 .. Len(cs), ReplyToolsCancelled(cs, n)
       PROVE  Kept' /\ Pinned
  <2> DEFINE r == Append(conv, Assistant(cs)) \o Ran(cs, n)
  <2>1. n \in Nat
    BY <1>4
  <2>2. Turns(r)
    BY <1>1, <2>1, CalledTurns
  <2>3. Finish(r, TRUE)
    BY <1>13 DEF ReplyToolsCancelled
  <2> HIDE DEF r
  <2> QED
    BY <1>1, <2>2, <2>3, FinishStep
<1> QED
  BY <1>5, <1>6, <1>8, <1>9, <1>10, <1>11, <1>12, <1>13

(* Every step keeps the invariant and the task of a run.                   *)
LEMMA NextStep ==
  ASSUME Kept, Posted, [Next]_vars
  PROVE  Kept' /\ Pinned
<1>1. /\ Shape /\ Turns(turns) /\ Turns(kv.turns) /\ kv.paused \in BOOLEAN /\ paused \in BOOLEAN
      /\ kv = [turns |-> kv.turns, paused |-> kv.paused] /\ PauseDurable
  BY DEF Kept, Shape
<1>2. Turns(<<>>)
  BY DEF Turns, IsList, ToSet
<1>3. CASE Prompt
  <2>1. StartPrompt(turns, User(task + 1)) /\ kv' = kv
    BY <1>3 DEF Prompt
  <2> QED
    BY <1>1, <2>1, StartStep, UserTurn
<1>4. CASE Continue
  <2>1. StartPrompt(turns, User(0)) /\ kv' = kv
    BY <1>4 DEF Continue, Note
  <2> QED
    BY <1>1, <2>1, StartStep, UserTurn
<1>5. CASE Queue \/ TimePasses \/ (\E m \in Models : Select(m)) \/ ReadStore \/ UNCHANGED vars
  <2>1. UNCHANGED <<turns, paused, kv, conv, running, up, legs>>
    BY <1>5 DEF Queue, TimePasses, Select, ReadStore, vars, own, session, run
  <2>2. PauseDurable'
    BY <1>1, <2>1 DEF PauseDurable
  <2> QED
    BY <1>1, <2>1, <2>2, SessionStep
<1>6. ASSUME NEW ts \in ForkTurns, NEW p \in BOOLEAN, SessionMemoryReplace(ts, p)
      PROVE  Kept' /\ Pinned
  <2>1. /\ turns' = Bound(ts) /\ paused' = p /\ kv' = [turns |-> Bound(ts), paused |-> p]
        /\ conv' = <<>> /\ running' = FALSE /\ legs' = legs
    BY <1>6 DEF SessionMemoryReplace, Persist
  <2>2. Turns(Bound(ts))
    BY ForksAssumption, BoundTurns DEF Turns
  <2>3. PauseDurable'
    BY <2>1 DEF PauseDurable
  <2> QED
    BY <1>1, <2>1, <2>2, <2>3, SessionStep
<1>7. CASE RestoreConversation
  <2>1. /\ turns' = turns \/ (turns' = offered /\ Len(offered) > Len(turns))
        /\ UNCHANGED <<paused, kv, conv, running, up, legs>>
    BY <1>7 DEF RestoreConversation, AddsTurns, run
  <2>2. Len(offered) \in Nat /\ Len(turns) \in Nat /\ Len(kv.turns) \in Nat
    BY <1>1, ListFacts DEF Turns, Posted
  <2>3. Len(offered) > Len(turns) /\ Len(turns) >= Len(kv.turns) => Len(offered) > Len(kv.turns)
    BY <2>2
  <2>4. turns = kv.turns => Len(turns) >= Len(kv.turns)
    BY <2>2
  <2>5. Len(turns) > Len(kv.turns) => Len(turns) >= Len(kv.turns)
    BY <2>2
  <2>6. PauseDurable'
    BY <1>1, <2>1, <2>3, <2>4, <2>5 DEF PauseDurable
  <2>7. Turns(turns')
    BY <1>1, <2>1 DEF Posted
  <2> QED
    BY <1>1, <2>1, <2>6, <2>7, SessionStep
<1>8. CASE Stopping \/ Crash
  <2>1. /\ up' = FALSE /\ turns' = <<>> /\ paused' = FALSE
        /\ conv' = <<>> /\ running' = FALSE /\ legs' = legs
    BY <1>8 DEF Stopping, Crash, Halt
  <2>2. PauseDurable'
    BY <2>1 DEF PauseDurable
  <2>3. /\ Turns(kv'.turns) /\ kv'.paused \in BOOLEAN
        /\ kv' = [turns |-> kv'.turns, paused |-> kv'.paused]
    <3>1. CASE Stopping
      <4>1. kv' = [turns |-> turns, paused |-> paused]
        BY <3>1 DEF Stopping
      <4>2. kv'.turns = turns /\ kv'.paused = paused
        BY <4>1
      <4> QED
        BY <1>1, <4>1, <4>2
    <3>2. CASE Crash
      BY <1>1, <3>2 DEF Crash
    <3> QED
      BY <1>8, <3>1, <3>2
  <2>4. Turns(turns') /\ paused' \in BOOLEAN
    BY <1>2, <2>1
  <2>5. conv' = <<>> /\ ~running'
    BY <2>1
  <2> QED
    BY <1>1, <2>1, <2>2, <2>3, <2>4, <2>5, SessionStep
<1>9. CASE Restore
  <2>1. /\ turns' = kv.turns /\ paused' = (kv.paused /\ kv.turns # <<>>)
        /\ UNCHANGED <<kv, conv, running, legs>>
    BY <1>9 DEF Restore, run
  <2>2. paused' \in BOOLEAN /\ (paused' => kv.paused = TRUE)
    BY <1>1, <2>1
  <2>3. PauseDurable'
    BY <1>1, <2>1, <2>2 DEF PauseDurable
  <2> QED
    BY <1>1, <2>1, <2>2, <2>3, SessionStep
<1> QED
  BY <1>3, <1>4, <1>5, <1>6, <1>7, <1>8, <1>9, LoopStep DEF Next, Act

(* A restore message carries what was once in the store.                   *)
LEMMA PostedStep ==
  ASSUME Kept, Posted, [Next]_vars
  PROVE  Posted'
<1>1. Turns(kv.turns) /\ Turns(<<>>)
  <2>1. Turns(<<>>)
    BY DEF Turns, IsList, ToSet
  <2> QED
    BY <2>1 DEF Kept, Shape
<1>2. offered' = offered \/ offered' = kv.turns \/ offered' = <<>>
  BY DEF Next, ReadStore, RestoreConversation, vars
<1> QED
  BY <1>1, <1>2 DEF Posted

(* And the invariant holds at first.                                       *)
LEMMA InitKept == Init => Kept /\ Posted
<1> SUFFICES ASSUME Init PROVE Kept /\ Posted
  OBVIOUS
<1>1. Turns(<<>>)
  BY DEF Turns, IsList, ToSet
<1>2. /\ turns = <<>> /\ conv = <<>> /\ paused = FALSE /\ running = FALSE /\ legs = 0
      /\ kv = [turns |-> <<>>, paused |-> FALSE] /\ offered = <<>>
  BY DEF Init
<1>3. kv.turns = <<>> /\ kv.paused = FALSE
  BY <1>2
<1>4. Shape
  BY <1>1, <1>2, <1>3 DEF Shape
<1> QED
  BY <1>1, <1>2, <1>4 DEF Kept, Posted, PauseDurable

-----------------------------------------------------------------------------
(* The properties. *)

(* A paused session survives a restart: after a pause, whatever is typed,  *)
(* forked or crashes and whenever an old snapshot arrives, the store holds *)
(* a pause (session_memory.go, handleOrchestratorDone), and memory its     *)
(* turns or a longer conversation that a restore message brought           *)
(* (llm_prompt_execution_actor.go:415).                                    *)
THEOREM PausesDurable == Spec => []PauseDurable
<1>1. Kept /\ Posted /\ [Next]_vars => Kept' /\ Posted'
  BY NextStep, PostedStep
<1>2. Kept => PauseDurable
  BY DEF Kept
<1> QED
  BY <1>1, <1>2, InitKept, PTL DEF Spec

(* A task outlives what shortens its conversation: compaction keeps its    *)
(* brief (orchestrator.go:1769) and a continued run sees the last turn of  *)
(* the paused one (session_memory.go:135), for any window and any forks.   *)
THEOREM TasksKept == Spec => TaskKept
<1>1. Kept /\ Posted /\ [Next]_vars => Kept' /\ Posted'
  BY NextStep, PostedStep
<1>2. Kept /\ Posted /\ [Next]_vars => [running /\ running' /\ legs' = legs => Opening(conv') = Opening(conv)]_vars
  BY NextStep DEF Pinned
<1>3. Kept /\ [Next]_vars =>
        [Continue /\ Len(turns) < Hard /\ HasUser(turns) => Len(conv') > 1 /\ conv'[Len(conv') - 1] = turns[Len(turns)]]_vars
  <2>1. SUFFICES ASSUME Kept, Continue, Len(turns) < Hard, HasUser(turns)
                 PROVE  Len(conv') > 1 /\ conv'[Len(conv') - 1] = turns[Len(turns)]
    OBVIOUS
  <2>2. conv' = Bound(Append(turns, User(0)))
    BY <2>1 DEF Continue, StartPrompt, Note
  <2>3. Turns(turns)
    BY <2>1 DEF Kept, Shape
  <2> QED
    BY <2>1, <2>2, <2>3, BoundShort, UserTurn
<1> QED
  BY <1>1, <1>2, <1>3, InitKept, PTL DEF Spec, TaskKept, BriefPinned, CheckpointKept

-----------------------------------------------------------------------------
(* Whole conversations. *)

(* What a session holds.                                                   *)
Sound(ts) == Turns(ts) /\ IsTurns(ts) /\ Whole(ts)

(* It does not begin with a result.                                        *)
Full(ts) == Sound(ts) /\ (ts # <<>> => ts[1].role # "tool")

(* The parts of being sound, one by one.                                   *)
WellFormed(t) ==
    /\ t.role \in {"user", "assistant", "tool"} /\ (t.calls # <<>> => t.role = "assistant")
    /\ (t.id # NoCall) = (t.role = "tool")

(* A result in the run of results that opens the transcript: its reply was *)
(* trimmed away.                                                           *)
Led(ts, k) == \A j \in 1 .. k : ts[j].role = "tool"

(* Two results of one run answer different calls.                          *)
Apart(ts, k, l) == k < l /\ (\A j \in k .. l : ts[j].role = "tool") => ts[k].id # ts[l].id

(* What it is to be sound, in terms of positions.                          *)
LEMMA SoundFacts ==
  ASSUME NEW ts, IsList(ts)
  PROVE  Sound(ts) <=>
           /\ \A i \in 1 .. Len(ts) : IsList(ts[i].calls) /\ WellFormed(ts[i])
           /\ \A i \in 1 .. Len(ts) : \A c \in Calls(ts[i]) :
                \E k \in 1 .. Len(ts) : ts[k].id = c /\ Answers(ts, k, i)
           /\ \A k \in 1 .. Len(ts) : ts[k].role = "tool" =>
                Led(ts, k) \/ \E i \in 1 .. Len(ts) : Answers(ts, k, i)
           /\ \A k, l \in 1 .. Len(ts) : Apart(ts, k, l)
<1>1. DOMAIN ts = 1 .. Len(ts)
  BY ListFacts
<1>2. Turns(ts) /\ IsTurns(ts) <=> \A i \in 1 .. Len(ts) : IsList(ts[i].calls) /\ WellFormed(ts[i])
  BY <1>1 DEF Turns, IsTurns, WellFormed
<1>3. Whole(ts) <=>
           /\ \A i \in 1 .. Len(ts) : \A c \in Calls(ts[i]) :
                \E k \in 1 .. Len(ts) : ts[k].id = c /\ Answers(ts, k, i)
           /\ \A k \in 1 .. Len(ts) : ts[k].role = "tool" =>
                Led(ts, k) \/ \E i \in 1 .. Len(ts) : Answers(ts, k, i)
           /\ \A k, l \in 1 .. Len(ts) : Apart(ts, k, l)
  BY <1>1 DEF Whole, Led, Apart
<1> QED
  BY <1>2, <1>3 DEF Sound

(* Only an assistant turn before it answers for a result.                  *)
LEMMA AnswersFacts ==
  ASSUME NEW ts, NEW k, NEW i
  PROVE  Answers(ts, k, i) <=>
           /\ i < k /\ ts[i].role = "assistant" /\ ts[k].id \in Calls(ts[i])
           /\ \A j \in (i + 1) .. k : ts[j].role = "tool"
BY DEF Answers

(* From any place on.                                                      *)
LEMMA SoundSub ==
  ASSUME NEW ts, Sound(ts), NEW m \in Nat \ {0}, m <= Len(ts) + 1
  PROVE  Sound(SubSeq(ts, m, Len(ts)))
<1> DEFINE r == SubSeq(ts, m, Len(ts))
           n == Len(ts)
<1>1. /\ IsList(ts) /\ n \in Nat
  BY ListFacts DEF Sound, Turns
<1>2. /\ IsList(r) /\ Len(r) = n - m + 1
      /\ \A i \in 1 .. Len(r) : r[i] = ts[m + i - 1] /\ m + i - 1 \in 1 .. n
  BY <1>1, ListSub
<1>3. /\ \A i \in 1 .. n : IsList(ts[i].calls) /\ WellFormed(ts[i])
      /\ \A i \in 1 .. n : \A c \in Calls(ts[i]) :
           \E k \in 1 .. n : ts[k].id = c /\ Answers(ts, k, i)
      /\ \A k \in 1 .. n : ts[k].role = "tool" => Led(ts, k) \/ \E i \in 1 .. n : Answers(ts, k, i)
      /\ \A k, l \in 1 .. n : Apart(ts, k, l)
  BY <1>1, SoundFacts
<1> HIDE DEF r, n
<1>4. ASSUME NEW i \in 1 .. Len(r)
      PROVE  IsList(r[i].calls) /\ WellFormed(r[i])
  BY <1>2, <1>3
<1>5. ASSUME NEW i \in 1 .. Len(r), NEW c \in Calls(r[i])
      PROVE  \E k \in 1 .. Len(r) : r[k].id = c /\ Answers(r, k, i)
  <2>1. c \in Calls(ts[m + i - 1]) /\ m + i - 1 \in 1 .. n
    BY <1>2, <1>5
  <2>2. PICK k \in 1 .. n : ts[k].id = c /\ Answers(ts, k, m + i - 1)
    BY <1>3, <2>1
  <2>3. /\ m + i - 1 < k /\ ts[m + i - 1].role = "assistant" /\ ts[k].id \in Calls(ts[m + i - 1])
        /\ \A j \in (m + i - 1 + 1) .. k : ts[j].role = "tool"
    BY <2>2, AnswersFacts
  <2> DEFINE h == k - m + 1
  <2>4. h \in 1 .. Len(r) /\ m + h - 1 = k /\ i < h
    BY <1>1, <1>2, <2>3
  <2> HIDE DEF h
  <2>5. r[h] = ts[k] /\ r[i] = ts[m + i - 1]
    BY <1>2, <2>4
  <2>6. ASSUME NEW j \in (i + 1) .. h
        PROVE  r[j].role = "tool"
    <3>1. j \in 1 .. Len(r) /\ m + j - 1 \in (m + i - 1 + 1) .. k
      BY <1>1, <1>2, <2>4
    <3> QED
      BY <1>2, <2>3, <3>1
  <2>7. Answers(r, h, i)
    BY <2>3, <2>4, <2>5, <2>6, AnswersFacts
  <2> QED
    BY <2>2, <2>4, <2>5, <2>7
<1>6. ASSUME NEW k \in 1 .. Len(r), r[k].role = "tool"
      PROVE  Led(r, k) \/ \E i \in 1 .. Len(r) : Answers(r, k, i)
  <2> DEFINE h == m + k - 1
  <2>1. h \in 1 .. n /\ r[k] = ts[h]
    BY <1>2
  <2>2. h = m + k - 1
    OBVIOUS
  <2> HIDE DEF h
  <2>3. CASE Led(ts, h)
    <3>1. ASSUME NEW j \in 1 .. k
          PROVE  r[j].role = "tool"
      <4>1. j \in 1 .. Len(r) /\ m + j - 1 \in 1 .. h
        BY <1>1, <1>2, <2>2
      <4> QED
        BY <1>2, <2>3, <4>1 DEF Led
    <3> QED
      BY <3>1 DEF Led
  <2>4. ASSUME NEW i \in 1 .. n, Answers(ts, h, i)
        PROVE  Led(r, k) \/ \E o \in 1 .. Len(r) : Answers(r, k, o)
    <3>1. /\ i < h /\ ts[i].role = "assistant" /\ ts[h].id \in Calls(ts[i])
          /\ \A j \in (i + 1) .. h : ts[j].role = "tool"
      BY <2>4, AnswersFacts
    <3>2. CASE i < m
      <4>1. ASSUME NEW j \in 1 .. k
            PROVE  r[j].role = "tool"
        <5>1. j \in 1 .. Len(r) /\ m + j - 1 \in (i + 1) .. h
          BY <1>1, <1>2, <2>2, <3>2
        <5> QED
          BY <1>2, <3>1, <5>1
      <4> QED
        BY <4>1 DEF Led
    <3>3. CASE ~(i < m)
      <4> DEFINE o == i - m + 1
      <4>1. o \in 1 .. Len(r) /\ m + o - 1 = i /\ o < k
        BY <1>1, <1>2, <2>1, <2>2, <3>1, <3>3
      <4> HIDE DEF o
      <4>2. r[o] = ts[i]
        BY <1>2, <4>1
      <4>3. ASSUME NEW j \in (o + 1) .. k
            PROVE  r[j].role = "tool"
        <5>1. j \in 1 .. Len(r) /\ m + j - 1 \in (i + 1) .. h
          BY <1>1, <1>2, <2>2, <4>1
        <5> QED
          BY <1>2, <3>1, <5>1
      <4>4. Answers(r, k, o)
        BY <2>1, <3>1, <4>1, <4>2, <4>3, AnswersFacts
      <4> QED
        BY <4>1, <4>4
    <3> QED
      BY <3>2, <3>3
  <2> QED
    BY <1>3, <1>6, <2>1, <2>3, <2>4
<1>7. ASSUME NEW k \in 1 .. Len(r), NEW l \in 1 .. Len(r)
      PROVE  Apart(r, k, l)
  <2> DEFINE k2 == m + k - 1
             l2 == m + l - 1
  <2>1. k2 \in 1 .. n /\ l2 \in 1 .. n /\ r[k] = ts[k2] /\ r[l] = ts[l2]
    BY <1>2
  <2>2. k2 = m + k - 1 /\ l2 = m + l - 1
    OBVIOUS
  <2> HIDE DEF k2, l2
  <2>3. SUFFICES ASSUME k < l, \A j \in k .. l : r[j].role = "tool"
                 PROVE  r[k].id # r[l].id
    BY DEF Apart
  <2>4. k2 < l2
    BY <1>1, <2>2, <2>3
  <2>5. ASSUME NEW j \in k2 .. l2
        PROVE  ts[j].role = "tool"
    <3>1. j - m + 1 \in k .. l /\ j - m + 1 \in 1 .. Len(r) /\ m + (j - m + 1) - 1 = j
      BY <1>1, <1>2, <2>1, <2>2
    <3> QED
      BY <1>2, <2>3, <3>1
  <2> QED
    BY <1>3, <2>1, <2>4, <2>5 DEF Apart
<1> QED
  BY <1>2, <1>4, <1>5, <1>6, <1>7, SoundFacts DEF r

(* Conversations one after the other.                                      *)
LEMMA SoundConcat ==
  ASSUME NEW a, Sound(a), NEW b, Full(b)
  PROVE  Sound(a \o b)
<1> DEFINE r == a \o b
           m == Len(a)
           n == Len(b)
<1>1. IsList(a) /\ IsList(b) /\ m \in Nat /\ n \in Nat
  BY ListFacts DEF Full, Sound, Turns
<1>2. IsList(r) /\ Len(r) = m + n /\ \A i \in 1 .. m + n : r[i] = IF i <= m THEN a[i] ELSE b[i - m]
  BY <1>1, ListConcat
<1>3. /\ \A i \in 1 .. m : IsList(a[i].calls) /\ WellFormed(a[i])
      /\ \A i \in 1 .. m : \A c \in Calls(a[i]) : \E k \in 1 .. m : a[k].id = c /\ Answers(a, k, i)
      /\ \A k \in 1 .. m : a[k].role = "tool" => Led(a, k) \/ \E i \in 1 .. m : Answers(a, k, i)
      /\ \A k, l \in 1 .. m : Apart(a, k, l)
  BY <1>1, SoundFacts
<1>4. /\ \A i \in 1 .. n : IsList(b[i].calls) /\ WellFormed(b[i])
      /\ \A i \in 1 .. n : \A c \in Calls(b[i]) : \E k \in 1 .. n : b[k].id = c /\ Answers(b, k, i)
      /\ \A k \in 1 .. n : b[k].role = "tool" => Led(b, k) \/ \E i \in 1 .. n : Answers(b, k, i)
      /\ \A k, l \in 1 .. n : Apart(b, k, l)
  BY <1>1, SoundFacts DEF Full
<1>5. n # 0 => b[1].role # "tool"
  BY <1>1, ListFacts DEF Full
<1> HIDE DEF r, m, n
<1>6. (\A i \in 1 .. m : i \in 1 .. m + n /\ r[i] = a[i]) /\ (\A i \in 1 .. n : i + m \in 1 .. m + n /\ r[i + m] = b[i])
  BY <1>1, <1>2
<1>7. \A i \in 1 .. m + n : i \in 1 .. m \/ (i - m \in 1 .. n /\ i = (i - m) + m /\ ~(i \in 1 .. m))
  BY <1>1
<1>8. ASSUME NEW k \in 1 .. m, NEW i \in 1 .. m, Answers(a, k, i)
      PROVE  Answers(r, k, i)
  <2>1. \A j \in (i + 1) .. k : j \in 1 .. m
    BY <1>1
  <2> QED
    BY <1>6, <1>8, <2>1, AnswersFacts
<1>9. ASSUME NEW k \in 1 .. n, NEW i \in 1 .. n, Answers(b, k, i)
      PROVE  Answers(r, k + m, i + m)
  <2>1. ASSUME NEW j \in (i + m + 1) .. (k + m)
        PROVE  r[j].role = "tool"
    <3>1. j - m \in (i + 1) .. k /\ j - m \in 1 .. n /\ (j - m) + m = j
      BY <1>1
    <3> QED
      BY <1>6, <1>9, <3>1, AnswersFacts
  <2>2. i + m < k + m
    BY <1>1, <1>9, AnswersFacts
  <2> QED
    BY <1>6, <1>9, <2>1, <2>2, AnswersFacts
<1>10. ASSUME NEW i \in 1 .. Len(r)
       PROVE  IsList(r[i].calls) /\ WellFormed(r[i])
  BY <1>2, <1>3, <1>4, <1>6, <1>7
<1>11. ASSUME NEW i \in 1 .. Len(r), NEW c \in Calls(r[i])
       PROVE  \E k \in 1 .. Len(r) : r[k].id = c /\ Answers(r, k, i)
  <2>1. CASE i \in 1 .. m
    <3>1. PICK k \in 1 .. m : a[k].id = c /\ Answers(a, k, i)
      BY <1>3, <1>6, <1>11, <2>1
    <3> QED
      BY <1>2, <1>6, <1>8, <2>1, <3>1
  <2>2. CASE i - m \in 1 .. n /\ i = (i - m) + m
    <3>1. c \in Calls(b[i - m])
      BY <1>6, <1>11, <2>2
    <3>2. PICK k \in 1 .. n : b[k].id = c /\ Answers(b, k, i - m)
      BY <1>4, <2>2, <3>1
    <3>3. Answers(r, k + m, i)
      BY <1>9, <2>2, <3>2
    <3> QED
      BY <1>2, <1>6, <3>2, <3>3
  <2> QED
    BY <1>2, <1>7, <2>1, <2>2
<1>12. ASSUME NEW k \in 1 .. Len(r), r[k].role = "tool"
       PROVE  Led(r, k) \/ \E i \in 1 .. Len(r) : Answers(r, k, i)
  <2>1. CASE k \in 1 .. m
    <3>1. Led(a, k) => Led(r, k)
      <4>1. \A j \in 1 .. k : j \in 1 .. m
        BY <1>1, <2>1
      <4> QED
        BY <1>6, <4>1 DEF Led
    <3> QED
      BY <1>2, <1>3, <1>6, <1>8, <1>12, <2>1, <3>1
  <2>2. CASE k - m \in 1 .. n /\ k = (k - m) + m
    <3>1. b[k - m].role = "tool"
      BY <1>6, <1>12, <2>2
    <3>2. ~Led(b, k - m)
      <4>1. 1 \in 1 .. k - m /\ n # 0
        BY <1>1, <2>2
      <4> QED
        BY <1>5, <4>1 DEF Led
    <3>3. PICK i \in 1 .. n : Answers(b, k - m, i)
      BY <1>4, <2>2, <3>1, <3>2
    <3>4. Answers(r, k, i + m)
      BY <1>9, <2>2, <3>3
    <3> QED
      BY <1>2, <1>6, <3>4
  <2> QED
    BY <1>2, <1>7, <2>1, <2>2
<1>13. ASSUME NEW k \in 1 .. Len(r), NEW l \in 1 .. Len(r), k < l, \A j \in k .. l : r[j].role = "tool"
       PROVE  r[k].id # r[l].id
  <2>1. CASE l \in 1 .. m
    <3>1. k \in 1 .. m /\ \A j \in k .. l : j \in 1 .. m
      BY <1>1, <1>13, <2>1
    <3>2. \A j \in k .. l : a[j].role = "tool"
      BY <1>6, <1>13, <3>1
    <3> QED
      BY <1>3, <1>6, <1>13, <2>1, <3>1, <3>2 DEF Apart
  <2>2. CASE k - m \in 1 .. n /\ l - m \in 1 .. n /\ k = (k - m) + m /\ l = (l - m) + m
    <3>1. k - m < l - m
      BY <1>1, <1>13, <2>2
    <3>2. ASSUME NEW j \in (k - m) .. (l - m)
          PROVE  b[j].role = "tool"
      <4>1. j \in 1 .. n /\ j + m \in k .. l
        BY <1>1, <2>2
      <4> QED
        BY <1>6, <1>13, <4>1
    <3> QED
      BY <1>4, <1>6, <2>2, <3>1, <3>2 DEF Apart
  <2>3. CASE k \in 1 .. m /\ l - m \in 1 .. n /\ l = (l - m) + m
    <3>1. 1 + m \in k .. l /\ 1 \in 1 .. n /\ n # 0
      BY <1>1, <2>3
    <3> QED
      BY <1>5, <1>6, <1>13, <3>1
  <2>4. ~(k - m \in 1 .. n /\ l \in 1 .. m)
    BY <1>1, <1>2, <1>13
  <2> QED
    BY <1>2, <1>7, <2>1, <2>2, <2>3, <2>4
<1>14. \A k, l \in 1 .. Len(r) : Apart(r, k, l)
  BY <1>13 DEF Apart
<1> QED
  BY <1>2, <1>10, <1>11, <1>12, <1>14, SoundFacts DEF r

(* The results of calls of a turn, each of another one.                    *)
Replies(t, rs) ==
    /\ IsList(rs)
    /\ \A k \in 1 .. Len(rs) : rs[k].role = "tool" /\ rs[k].calls = <<>> /\ rs[k].id \in Calls(t) /\ rs[k].id # NoCall
    /\ \A k, l \in 1 .. Len(rs) : k < l => rs[k].id # rs[l].id

Covers(t, rs) == \A c \in Calls(t) : \E k \in 1 .. Len(rs) : rs[k].id = c

(* A turn with the results of all of its calls.                            *)
LEMMA FullBlock ==
  ASSUME NEW t, WellFormed(t), t.role = "assistant", IsList(t.calls),
         NEW rs, Replies(t, rs), Covers(t, rs)
  PROVE  Full(<<t>> \o rs)
<1> DEFINE h == <<t>>
           r == h \o rs
           n == Len(rs)
<1>1. IsList(h) /\ Len(h) = 1 /\ h[1] = t
  BY ListOne
<1> HIDE DEF h
<1>2. IsList(rs) /\ n \in Nat
  BY ListFacts DEF Replies
<1>3. IsList(r) /\ Len(r) = 1 + n /\ \A i \in 1 .. 1 + n : r[i] = IF i <= 1 THEN h[i] ELSE rs[i - 1]
  <2>1. /\ IsList(h \o rs) /\ Len(h \o rs) = Len(h) + Len(rs)
        /\ \A i \in 1 .. Len(h) + Len(rs) : (h \o rs)[i] = IF i <= Len(h) THEN h[i] ELSE rs[i - Len(h)]
    BY <1>1, <1>2, ListConcat
  <2> QED
    BY <1>1, <2>1
<1>4. IsList(<<>>)
  BY DEF IsList, ToSet
<1>5. /\ \A k \in 1 .. n : rs[k].role = "tool" /\ rs[k].calls = <<>> /\ rs[k].id \in Calls(t) /\ rs[k].id # NoCall
      /\ \A k, l \in 1 .. n : k < l => rs[k].id # rs[l].id
      /\ \A c \in Calls(t) : \E k \in 1 .. n : rs[k].id = c
  BY DEF Replies, Covers
<1> HIDE DEF r, n
<1>6. r[1] = t /\ \A k \in 1 .. n : r[k + 1] = rs[k] /\ k + 1 \in 1 .. 1 + n
  BY <1>1, <1>2, <1>3
<1>7. \A i \in 1 .. 1 + n : i = 1 \/ (i - 1 \in 1 .. n /\ i = (i - 1) + 1)
  BY <1>2
<1>8. ASSUME NEW i \in 1 .. Len(r)
      PROVE  IsList(r[i].calls) /\ WellFormed(r[i])
  <2>1. CASE i = 1
    BY <1>6, <2>1
  <2>2. CASE i - 1 \in 1 .. n /\ i = (i - 1) + 1
    <3>1. r[i] = rs[i - 1]
      BY <1>6, <2>2
    <3> QED
      BY <1>4, <1>5, <2>2, <3>1 DEF WellFormed
  <2> QED
    BY <1>3, <1>7, <2>1, <2>2
<1>9. ASSUME NEW k \in 1 .. n
      PROVE  Answers(r, k + 1, 1)
  <2>1. ASSUME NEW j \in (1 + 1) .. (k + 1)
        PROVE  r[j].role = "tool"
    <3>1. j - 1 \in 1 .. n /\ (j - 1) + 1 = j
      BY <1>2
    <3> QED
      BY <1>5, <1>6, <3>1
  <2>2. 1 < k + 1
    BY <1>2
  <2> QED
    BY <1>5, <1>6, <2>1, <2>2, AnswersFacts
<1>10. ASSUME NEW i \in 1 .. Len(r), NEW c \in Calls(r[i])
       PROVE  \E k \in 1 .. Len(r) : r[k].id = c /\ Answers(r, k, i)
  <2>1. CASE i = 1
    <3>1. PICK k \in 1 .. n : rs[k].id = c
      BY <1>5, <1>6, <1>10, <2>1
    <3> QED
      BY <1>3, <1>6, <1>9, <2>1, <3>1
  <2>2. CASE i - 1 \in 1 .. n /\ i = (i - 1) + 1
    <3>1. r[i].calls = <<>>
      BY <1>5, <1>6, <2>2
    <3>2. Calls(r[i]) = {}
      BY <3>1 DEF Calls, ToSet
    <3> QED
      BY <1>10, <3>2
  <2> QED
    BY <1>3, <1>7, <2>1, <2>2
<1>11. ASSUME NEW k \in 1 .. Len(r), r[k].role = "tool"
       PROVE  \E i \in 1 .. Len(r) : Answers(r, k, i)
  <2>1. k # 1
    BY <1>6, <1>11
  <2>2. 1 \in 1 .. Len(r)
    BY <1>2, <1>3
  <2> QED
    BY <1>3, <1>7, <1>9, <2>1, <2>2
<1>12. ASSUME NEW k \in 1 .. Len(r), NEW l \in 1 .. Len(r), k < l, \A j \in k .. l : r[j].role = "tool"
       PROVE  r[k].id # r[l].id
  <2>1. k # 1 /\ l # 1
    <3>1. k \in k .. l /\ l \in k .. l
      BY <1>2, <1>3, <1>12
    <3> QED
      BY <1>6, <1>12, <3>1
  <2>2. k - 1 \in 1 .. n /\ l - 1 \in 1 .. n /\ k - 1 < l - 1 /\ k = (k - 1) + 1 /\ l = (l - 1) + 1
    BY <1>2, <1>3, <1>12, <2>1
  <2> QED
    BY <1>5, <1>6, <2>2
<1>13. \A k, l \in 1 .. Len(r) : Apart(r, k, l)
  BY <1>12 DEF Apart
<1>14. Sound(r)
  BY <1>3, <1>8, <1>10, <1>11, <1>13, SoundFacts
<1> QED
  BY <1>6, <1>14 DEF Full, r, h

(* A turn without calls.                                                   *)
LEMMA FullOne ==
  ASSUME NEW t, WellFormed(t), t.role # "tool", t.calls = <<>>
  PROVE  Full(<<t>>)
<1> DEFINE r == <<t>>
<1>1. IsList(r) /\ Len(r) = 1 /\ r[1] = t /\ IsList(<<>>)
  BY ListOne DEF IsList, ToSet
<1> HIDE DEF r
<1>2. \A i \in 1 .. Len(r) : i = 1
  BY <1>1
<1>3. Calls(t) = {}
  BY DEF Calls, ToSet
<1>4. \A k, l \in 1 .. Len(r) : Apart(r, k, l)
  BY <1>1 DEF Apart
<1>5. Sound(r)
  BY <1>1, <1>2, <1>3, <1>4, SoundFacts
<1> QED
  BY <1>1, <1>5 DEF Full, r

(* The session begins empty.                                               *)
LEMMA FullNone == Full(<<>>)
<1>1. Turns(<<>>) /\ IsTurns(<<>>) /\ Whole(<<>>)
  BY DEF Turns, IsTurns, Whole, IsList, ToSet
<1> QED
  BY <1>1 DEF Full, Sound

(* There is nothing to close.                                              *)
LEMMA SoundClosed ==
  ASSUME NEW ts, Sound(ts)
  PROVE  CloseDanglingToolCalls(ts) = ts
<1>1. Turns(ts) /\ IsList(ts) /\ DOMAIN ts = 1 .. Len(ts) /\ Len(ts) \in Nat
  BY ListFacts DEF Sound, Turns
<1>2. ASSUME NEW a \in DOMAIN ts, Closing(ts, a)
      PROVE  CloseDanglingToolCalls(ts) = ts
  <2> DEFINE cs == ts[a].calls
  <2>1. IsList(cs)
    BY <1>1 DEF Turns
  <2>2. ASSUME NEW n \in Open(ts, a)
        PROVE  FALSE
    <3>1. n \in DOMAIN cs /\ \A k \in (a + 1) .. Len(ts) : ts[k].id # cs[n]
      BY <2>2 DEF Open
    <3>2. cs[n] \in Calls(ts[a])
      BY <3>1 DEF Calls, ToSet
    <3>3. PICK k \in 1 .. Len(ts) : ts[k].id = cs[n] /\ Answers(ts, k, a)
      BY <1>1, <3>2, SoundFacts
    <3>4. k \in (a + 1) .. Len(ts)
      BY <1>1, <3>3, AnswersFacts
    <3> QED
      BY <3>1, <3>3, <3>4
  <2>3. Open(ts, a) = {}
    BY <2>2
  <2> DEFINE lost == Chosen(cs, Open(ts, a))
  <2>4. IsList(lost) /\ Len(lost) = 0
    <3>1. {} \in SUBSET DOMAIN cs
      OBVIOUS
    <3>2. IsList(Chosen(cs, {})) /\ Len(Chosen(cs, {})) = Cardinality({})
      BY <2>1, <3>1, ChosenList
    <3> QED
      BY <2>3, <3>2, FS_EmptySet
  <2> HIDE DEF cs
  <2>5. CloseDanglingToolCalls(ts) = ts \o Made(lost)
    BY <1>1, <1>2, CloseFacts DEF cs
  <2> HIDE DEF lost
  <2>6. Made(lost) = <<>>
    <3> DEFINE us == Made(lost)
    <3>1. Turns(us) /\ Len(us) = 0
      BY <2>4, MadeFacts
    <3> HIDE DEF us
    <3>2. us = <<>>
      BY <3>1, ListFacts DEF Turns
    <3> QED
      BY <3>2 DEF us
  <2>7. ts \o <<>> = ts
    <3>1. ts \in Seq(ToSet(ts))
      BY <1>1 DEF IsList, ToSet
    <3> QED
      BY <3>1, ConcatEmptySeq
  <2> QED
    BY <2>5, <2>6, <2>7
<1> QED
  BY <1>1, <1>2, CloseFacts

(* When a list of replies is closed, it covers the calls.                  *)
LEMMA CloseCalled ==
  ASSUME NEW ts, Sound(ts), NEW t, WellFormed(t), t.role = "assistant", IsList(t.calls),
         IsInjective(t.calls), NoCall \notin ToSet(t.calls), NEW rs, Replies(t, rs)
  PROVE  Sound(CloseDanglingToolCalls(ts \o (<<t>> \o rs)))
<1> DEFINE h == <<t>>
           b == h \o rs
           r == ts \o b
           m == Len(ts)
           n == Len(rs)
           a == m + 1
           cs == t.calls
<1>1. IsList(h) /\ Len(h) = 1 /\ h[1] = t /\ Turns(h)
  <2>1. IsList(h) /\ Len(h) = 1 /\ h[1] = t
    BY ListOne
  <2> HIDE DEF h
  <2>2. \A i \in DOMAIN h : h[i] = t
    BY <2>1, ListFacts
  <2> QED
    BY <2>1, <2>2 DEF Turns
<1> HIDE DEF h
<1>2. Turns(ts) /\ IsList(ts) /\ m \in Nat /\ IsList(rs) /\ n \in Nat
  BY ListFacts DEF Sound, Turns, Replies
<1>3. IsList(b) /\ Len(b) = 1 + n /\ \A i \in 1 .. 1 + n : b[i] = IF i <= 1 THEN h[i] ELSE rs[i - 1]
  <2>1. /\ IsList(h \o rs) /\ Len(h \o rs) = Len(h) + Len(rs)
        /\ \A i \in 1 .. Len(h) + Len(rs) : (h \o rs)[i] = IF i <= Len(h) THEN h[i] ELSE rs[i - Len(h)]
    BY <1>1, <1>2, ListConcat
  <2> QED
    BY <1>1, <2>1
<1>4. /\ \A k \in 1 .. n : rs[k].role = "tool" /\ rs[k].calls = <<>> /\ rs[k].id \in Calls(t) /\ rs[k].id # NoCall
      /\ \A k, l \in 1 .. n : k < l => rs[k].id # rs[l].id
  BY DEF Replies
<1> HIDE DEF b, n
<1>5. IsList(r) /\ Len(r) = m + (1 + n)
      /\ \A i \in 1 .. m + (1 + n) : r[i] = IF i <= m THEN ts[i] ELSE b[i - m]
  <2> HIDE DEF m
  <2> QED
    BY <1>2, <1>3, ListConcat DEF m
<1> HIDE DEF m, r
<1>6. r[a] = t /\ \A k \in 1 .. n : r[a + k] = rs[k]
  <2>1. b[1] = t /\ \A k \in 1 .. n : b[k + 1] = rs[k]
    BY <1>1, <1>2, <1>3
  <2>2. \A j \in 1 .. 1 + n : r[m + j] = b[j]
    <3>1. SUFFICES ASSUME NEW j \in 1 .. 1 + n PROVE r[m + j] = b[j]
      OBVIOUS
    <3>2. m + j \in 1 .. m + (1 + n) /\ ~(m + j <= m) /\ (m + j) - m = j
      BY <1>2
    <3> QED
      BY <1>5, <3>2
  <2>3. 1 \in 1 .. 1 + n /\ \A k \in 1 .. n : k + 1 \in 1 .. 1 + n /\ m + (k + 1) = a + k
    BY <1>2
  <2> QED
    BY <2>1, <2>2, <2>3
<1>7. Len(r) = a + n /\ a \in Nat /\ a \in 1 .. Len(r)
  BY <1>2, <1>5
<1> HIDE DEF a
<1>8. Turns(r)
  <2>1. Turns(rs)
    <3>1. IsList(<<>>) /\ DOMAIN rs = 1 .. n
      BY <1>2, ListFacts DEF IsList, ToSet, n
    <3> QED
      BY <1>2, <1>4, <3>1 DEF Turns
  <2>2. Turns(b)
    BY <1>1, <2>1, TurnsConcat DEF b
  <2> QED
    BY <1>2, <2>2, TurnsConcat DEF r
<1>9. \A k \in (a + 1) .. Len(r) : k - a \in 1 .. n /\ r[k] = rs[k - a]
  <2>1. SUFFICES ASSUME NEW k \in (a + 1) .. Len(r) PROVE k - a \in 1 .. n /\ r[k] = rs[k - a]
    OBVIOUS
  <2>2. k - a \in 1 .. n /\ a + (k - a) = k
    BY <1>2, <1>7
  <2> QED
    BY <1>6, <2>2
<1>10. Closing(r, a)
  <2>1. a \in DOMAIN r
    BY <1>5, <1>7, ListFacts
  <2>2. r[a].role = "assistant"
    BY <1>6
  <2>3. \A k \in (a + 1) .. Len(r) : r[k].role = "tool"
    BY <1>4, <1>9
  <2> QED
    BY <2>1, <2>2, <2>3 DEF Closing
<1> DEFINE lost == Chosen(cs, Open(r, a))
           us == Made(lost)
           rs2 == rs \o us
<1>11. CloseDanglingToolCalls(r) = r \o us
  BY <1>6, <1>8, <1>10, CloseFacts DEF Closing
<1>12. Open(r, a) = {j \in DOMAIN cs : \A k \in 1 .. n : rs[k].id # cs[j]}
  <2>1. \A k \in 1 .. n : a + k \in (a + 1) .. Len(r)
    BY <1>2, <1>7
  <2>2. \A j : (\A k \in (a + 1) .. Len(r) : r[k].id # cs[j]) <=> (\A k \in 1 .. n : rs[k].id # cs[j])
    BY <1>6, <1>9, <2>1
  <2> QED
    BY <1>6, <2>2 DEF Open
<1> DEFINE S == Open(r, a)
<1>13. /\ IsList(lost) /\ Len(lost) \in Nat
       /\ \A j \in 1 .. Len(lost) : \E i \in S : lost[j] = cs[i]
       /\ \A i \in S : \E j \in 1 .. Len(lost) : lost[j] = cs[i]
       /\ IsInjective(lost)
  <2>1. S \in SUBSET DOMAIN cs /\ IsList(cs) /\ IsInjective(cs)
    BY <1>12
  <2> HIDE DEF S, cs
  <2>2. /\ IsList(Chosen(cs, S))
        /\ \A j \in 1 .. Len(Chosen(cs, S)) : InOrder(S)[j] \in S /\ Chosen(cs, S)[j] = cs[InOrder(S)[j]]
        /\ \A i \in S : \E j \in 1 .. Len(Chosen(cs, S)) : Chosen(cs, S)[j] = cs[i]
        /\ IsInjective(Chosen(cs, S))
    BY <2>1, ChosenList
  <2> QED
    BY <2>2, ListFacts DEF S
<1> HIDE DEF lost
<1>14. Turns(us) /\ Len(us) = Len(lost) /\ \A j \in 1 .. Len(lost) : us[j] = Synthetic(lost[j])
  BY <1>13, MadeFacts
<1>15. \A c : Synthetic(c).role = "tool" /\ Synthetic(c).calls = <<>> /\ Synthetic(c).id = c
  BY DEF Synthetic, Turn
<1> HIDE DEF us
<1>16. IsList(us)
  BY <1>14 DEF Turns
<1>17. /\ IsList(rs2) /\ Len(rs2) = n + Len(lost)
       /\ \A i \in 1 .. n + Len(lost) : rs2[i] = IF i <= n THEN rs[i] ELSE us[i - n]
  BY <1>2, <1>14, <1>16, ListConcat DEF n
<1> HIDE DEF rs2
<1>18. \A i \in 1 .. n + Len(lost) : \/ i \in 1 .. n /\ rs2[i] = rs[i]
                                     \/ i - n \in 1 .. Len(lost) /\ rs2[i] = Synthetic(lost[i - n])
  <2>1. SUFFICES ASSUME NEW i \in 1 .. n + Len(lost)
                 PROVE  \/ i \in 1 .. n /\ rs2[i] = rs[i]
                        \/ i - n \in 1 .. Len(lost) /\ rs2[i] = Synthetic(lost[i - n])
    OBVIOUS
  <2>2. (i \in 1 .. n /\ i <= n) \/ (i - n \in 1 .. Len(lost) /\ ~(i <= n))
    BY <1>2, <1>13
  <2> QED
    BY <1>14, <1>17, <2>2
<1>19. \A j \in 1 .. Len(lost) : lost[j] \in Calls(t) /\ lost[j] # NoCall /\ \A k \in 1 .. n : rs[k].id # lost[j]
  BY <1>12, <1>13 DEF Calls, ToSet
<1>20. Replies(t, rs2)
  <2>1. ASSUME NEW k \in 1 .. Len(rs2)
        PROVE  rs2[k].role = "tool" /\ rs2[k].calls = <<>> /\ rs2[k].id \in Calls(t) /\ rs2[k].id # NoCall
    BY <1>4, <1>15, <1>17, <1>18, <1>19
  <2>2. ASSUME NEW k \in 1 .. Len(rs2), NEW l \in 1 .. Len(rs2), k < l
        PROVE  rs2[k].id # rs2[l].id
    <3>1. CASE l \in 1 .. n /\ rs2[l] = rs[l]
      <4>1. k \in 1 .. n /\ rs2[k] = rs[k]
        BY <1>2, <1>13, <1>17, <2>2, <3>1
      <4> QED
        BY <1>4, <2>2, <3>1, <4>1
    <3>2. CASE l - n \in 1 .. Len(lost) /\ rs2[l] = Synthetic(lost[l - n])
      <4>1. CASE k \in 1 .. n /\ rs2[k] = rs[k]
        BY <1>15, <1>19, <3>2, <4>1
      <4>2. CASE k - n \in 1 .. Len(lost) /\ rs2[k] = Synthetic(lost[k - n])
        <5>1. k - n # l - n
          BY <1>2, <2>2, <3>2, <4>2
        <5>2. DOMAIN lost = 1 .. Len(lost)
          BY <1>13, ListFacts
        <5>3. lost[k - n] # lost[l - n]
          BY <1>13, <3>2, <4>2, <5>1, <5>2 DEF IsInjective
        <5> QED
          BY <1>15, <3>2, <4>2, <5>3
      <4> QED
        BY <1>17, <1>18, <4>1, <4>2
    <3> QED
      BY <1>17, <1>18, <3>1, <3>2
  <2> QED
    BY <1>17, <2>1, <2>2 DEF Replies
<1>21. Covers(t, rs2)
  <2>1. SUFFICES ASSUME NEW c \in Calls(t) PROVE \E k \in 1 .. Len(rs2) : rs2[k].id = c
    BY DEF Covers
  <2>2. PICK i \in DOMAIN cs : c = cs[i]
    BY DEF Calls, ToSet
  <2>3. CASE i \in S
    <3>1. PICK j \in 1 .. Len(lost) : lost[j] = cs[i]
      BY <1>13, <2>3
    <3>2. n + j \in 1 .. n + Len(lost) /\ ~(n + j <= n) /\ (n + j) - n = j
      BY <1>2, <1>13
    <3>3. rs2[n + j] = Synthetic(lost[j])
      BY <1>14, <1>17, <3>2
    <3> QED
      BY <1>15, <1>17, <2>2, <3>1, <3>2, <3>3
  <2>4. CASE ~(i \in S)
    <3>1. PICK k \in 1 .. n : rs[k].id = cs[i]
      BY <1>12, <2>4
    <3>2. k \in 1 .. n + Len(lost) /\ k <= n
      BY <1>2, <1>13
    <3> QED
      BY <1>17, <2>2, <3>1, <3>2
  <2> QED
    BY <2>3, <2>4
<1>22. Full(h \o rs2)
  BY <1>20, <1>21, FullBlock DEF h
<1>23. Sound(ts \o (h \o rs2))
  BY <1>22, SoundConcat
<1>24. r \o us = ts \o (h \o rs2)
  <2>1. r \o us = ts \o (b \o us)
    <3>1. IsList(ts) /\ IsList(b) /\ IsList(us)
      BY <1>2, <1>3, <1>16
    <3>2. (ts \o b) \o us = ts \o (b \o us)
      BY <3>1, ListAssociative
    <3> QED
      BY <3>2 DEF r
  <2>2. b \o us = h \o rs2
    <3>1. IsList(h) /\ IsList(rs) /\ IsList(us)
      BY <1>1, <1>2, <1>16
    <3>2. (h \o rs) \o us = h \o (rs \o us)
      BY <3>1, ListAssociative
    <3> QED
      BY <3>2 DEF b, rs2
  <2> QED
    BY <2>1, <2>2
<1> QED
  BY <1>11, <1>23, <1>24 DEF r, b, h

-----------------------------------------------------------------------------
(* Runs of results. *)

(* A bounded, inhabited set of numbers has its greatest.                   *)
LEMMA GreatestOf ==
  ASSUME NEW n \in Nat, NEW S \in SUBSET (0 .. n), S # {}
  PROVE  Max(S) \in S /\ \A y \in S : y <= Max(S)
<1>5. \E m \in S : \A y \in S : m >= y
  <2>1. PICK m \in S : \A y \in S : y <= m
    BY GreatestNumber
  <2>2. \A y \in S : m >= y
    BY <2>1
  <2> QED
    BY <2>2
<1>6. Max(S) \in S /\ \A y \in S : Max(S) >= y
  BY <1>5, Zenon DEF Max
<1>7. \A y \in S : y \in Nat
  OBVIOUS
<1> QED
  BY <1>6, <1>7

(* The run of results goes on to where it ends, and no further.            *)
LEMMA RunEndFacts ==
  ASSUME NEW ts, IsList(ts), NEW i \in 1 .. Len(ts)
  PROVE  /\ RunEnd(ts, i) \in i .. Len(ts)
         /\ \A k \in i .. Len(ts) : k <= RunEnd(ts, i) <=> \A j \in (i + 1) .. k : ts[j].role = "tool"
<1> DEFINE n == Len(ts)
           S == {j \in i .. n : \A k \in (i + 1) .. j : ts[k].role = "tool"}
           e == RunEnd(ts, i)
<1>1. n \in Nat /\ i \in 1 .. n
  BY ListFacts
<1> HIDE DEF n
<1>2. e = Max(S)
  BY DEF RunEnd, n
<1>3. i \in S /\ S \in SUBSET (0 .. n)
  BY <1>1
<1>4. e \in S /\ \A y \in S : y <= e
  <2> HIDE DEF S, e
  <2> QED
    BY <1>1, <1>2, <1>3, GreatestOf
<1> HIDE DEF e
<1>5. e \in i .. n /\ \A k \in (i + 1) .. e : ts[k].role = "tool"
  BY <1>4
<1>6. ASSUME NEW k \in i .. n, k <= e, NEW j \in (i + 1) .. k
      PROVE  ts[j].role = "tool"
  <2>1. j \in (i + 1) .. e
    BY <1>1, <1>5, <1>6
  <2> QED
    BY <1>5, <2>1
<1>7. ASSUME NEW k \in i .. n, \A j \in (i + 1) .. k : ts[j].role = "tool"
      PROVE  k <= e
  BY <1>4, <1>7
<1> QED
  BY <1>5, <1>6, <1>7 DEF e, n

(* A whole conversation is paired.                                         *)
LEMMA UnpairedFull ==
  ASSUME NEW ts, Full(ts)
  PROVE  Unpaired(ts) = {}
<1> DEFINE n == Len(ts)
<1>1. IsList(ts) /\ DOMAIN ts = 1 .. n /\ n \in Nat
  BY ListFacts DEF Full, Sound, Turns
<1>2. /\ \A i \in 1 .. n : \A c \in Calls(ts[i]) : \E k \in 1 .. n : ts[k].id = c /\ Answers(ts, k, i)
      /\ \A k \in 1 .. n : ts[k].role = "tool" => Led(ts, k) \/ \E i \in 1 .. n : Answers(ts, k, i)
  BY <1>1, SoundFacts DEF Full
<1>3. ASSUME NEW k \in 1 .. n, NEW i \in 1 .. n, Answers(ts, k, i)
      PROVE  k \in (i + 1) .. RunEnd(ts, i)
  <2>1. i < k /\ \A j \in (i + 1) .. k : ts[j].role = "tool"
    BY <1>3, AnswersFacts
  <2>2. k \in i .. n /\ k \in (i + 1) .. n
    BY <1>1, <2>1
  <2>3. RunEnd(ts, i) \in i .. n /\ k <= RunEnd(ts, i)
    BY <1>1, <2>1, <2>2, RunEndFacts
  <2> QED
    BY <1>1, <2>2, <2>3
<1>4. ASSUME NEW i \in 1 .. n, NEW c \in Calls(ts[i]), \A k \in (i + 1) .. RunEnd(ts, i) : ts[k].id # c
      PROVE  FALSE
  BY <1>2, <1>3, <1>4
<1>5. ASSUME NEW k \in 1 .. n, ts[k].role = "tool",
             \A o \in 1 .. (k - 1) : RunEnd(ts, o) >= k => ts[o].calls = <<>>
      PROVE  FALSE
  <2>1. ~Led(ts, k)
    <3>1. 1 \in 1 .. k /\ ts # <<>>
      BY <1>1, ListFacts
    <3> QED
      BY <3>1 DEF Led, Full
  <2>2. PICK i \in 1 .. n : Answers(ts, k, i)
    BY <1>2, <1>5, <2>1
  <2>3. i < k /\ ts[k].id \in Calls(ts[i])
    BY <2>2, AnswersFacts
  <2>4. i \in 1 .. (k - 1) /\ RunEnd(ts, i) >= k
    <3>1. k \in (i + 1) .. RunEnd(ts, i)
      BY <1>3, <2>2
    <3>2. RunEnd(ts, i) \in i .. n
      BY <1>1, RunEndFacts
    <3> QED
      BY <1>1, <2>3, <3>1, <3>2
  <2>5. Calls(ts[i]) = {}
    BY <1>5, <2>4 DEF Calls, ToSet
  <2> QED
    BY <2>3, <2>5
<1> QED
  BY <1>1, <1>4, <1>5 DEF Unpaired

-----------------------------------------------------------------------------
(* What is stored. *)

(* A session: whole, and headed unless it is a window without its user.    *)
Stored(ts) == Sound(ts) /\ (HasUser(ts) => Headed(ts)) /\ Len(ts) <= Hard

(* An empty session can be stored.                                         *)
LEMMA StoredNone == Stored(<<>>)
<1>1. ~HasUser(<<>>) /\ Len(<<>>) <= Hard
  BY BoundsAssumption DEF HasUser
<1> QED
  BY <1>1, FullNone DEF Stored, Full

(* A transcript that opens with the user opens with no result.             *)
LEMMA HeadedFull ==
  ASSUME NEW ts, Sound(ts), Headed(ts)
  PROVE  Full(ts)
BY DEF Full, Headed

(* Trimming keeps a window sound: only the results at its head lose their  *)
(* call.                                                                   *)
LEMMA TrimSound ==
  ASSUME NEW ts, Sound(ts)
  PROVE  Sound(Trim(ts)) /\ Len(Trim(ts)) <= Hard
<1> DEFINE m == Len(ts) - Target + 1
<1>1. Len(ts) \in Nat /\ Hard \in Nat \ {0} /\ Target \in Nat \ {0} /\ Target <= Hard /\ IsList(ts)
  BY ListFacts, BoundsAssumption DEF Turns, Sound
<1>2. CASE ~(Len(ts) > Hard)
  BY <1>1, <1>2 DEF Trim
<1>3. CASE Len(ts) > Hard
  <2>1. Trim(ts) = SubSeq(ts, m, Len(ts)) /\ m \in Nat \ {0} /\ m <= Len(ts) + 1 /\ Len(ts) - m + 1 = Target
    BY <1>1, <1>3 DEF Trim
  <2> HIDE DEF m
  <2>2. Sound(SubSeq(ts, m, Len(ts))) /\ Len(SubSeq(ts, m, Len(ts))) = Len(ts) - m + 1
    BY <1>1, <2>1, SoundSub, ListSub
  <2> QED
    BY <1>1, <2>1, <2>2
<1> QED
  BY <1>2, <1>3

(* Dropping everything before the first user turn is sound as well.        *)
LEMMA HealSound ==
  ASSUME NEW ts, Sound(ts)
  PROVE  LET r == HealConversationHead(ts)
         IN  /\ Sound(r) /\ Len(r) <= Len(ts) /\ (HasUser(r) => Headed(r))
             /\ Headed(ts) => r = ts
<1> DEFINE users == {i \in DOMAIN ts : ts[i].role = "user"}
           r == HealConversationHead(ts)
           m == Min(users)
<1>1. Len(ts) \in Nat /\ DOMAIN ts = 1 .. Len(ts) /\ IsList(ts) /\ Turns(ts)
  BY ListFacts DEF Turns, Sound
<1>2. r = IF users = {} THEN ts ELSE SubSeq(ts, m, Len(ts))
  BY DEF HealConversationHead
<1>3. ASSUME users = {}
      PROVE  ~HasUser(ts) /\ ~Headed(ts)
  <2>1. ~HasUser(ts)
    BY <1>3 DEF HasUser
  <2>2. ASSUME Headed(ts) PROVE FALSE
    <3>1. 1 \in DOMAIN ts
      BY <1>1, <2>2, ListFacts DEF Headed
    <3> QED
      BY <2>1, <2>2, <3>1 DEF Headed, HasUser
  <2> QED
    BY <2>1, <2>2
<1>4. CASE users = {}
  BY <1>1, <1>2, <1>3, <1>4
<1>5. CASE users # {}
  <2>1. users \in SUBSET Nat
    BY <1>1
  <2>2. m \in users /\ \A u \in users : m <= u
    <3> HIDE DEF users
    <3> QED
      BY <1>5, <2>1, LeastOf
  <2>3. m \in 1 .. Len(ts) /\ ts[m].role = "user"
    BY <1>1, <2>2
  <2>4. Headed(ts) => m = 1
    <3>1. SUFFICES ASSUME Headed(ts) PROVE m = 1
      OBVIOUS
    <3>2. 1 \in users
      BY <1>1, <2>3, <3>1 DEF Headed
    <3>3. m <= 1
      BY <2>2, <3>2
    <3> QED
      BY <2>3, <3>3
  <2> HIDE DEF m, users
  <2>5. r = SubSeq(ts, m, Len(ts))
    BY <1>2, <1>5
  <2>6. m \in Nat \ {0} /\ m <= Len(ts) + 1
    BY <1>1, <2>3
  <2>7. Sound(r) /\ Len(r) = Len(ts) - m + 1
    BY <1>1, <2>5, <2>6, SoundSub, ListSub
  <2>8. Headed(r)
    BY <1>1, <2>3, HealTurns
  <2>9. m = 1 => r = ts
    <3>1. ts \in Seq(ToSet(ts))
      BY <1>1 DEF IsList, ToSet
    <3>2. SubSeq(ts, 1, Len(ts)) = ts
      BY <3>1
    <3> QED
      BY <2>5, <3>2
  <2> HIDE DEF r
  <2>10. Len(r) <= Len(ts)
    BY <1>1, <2>3, <2>7
  <2> QED
    BY <2>4, <2>7, <2>8, <2>9, <2>10 DEF r
<1> QED
  BY <1>4, <1>5

(* A sound session is bounded to one that can be stored.                   *)
LEMMA BoundSound ==
  ASSUME NEW ts, Sound(ts)
  PROVE  Stored(Bound(ts))
<1> DEFINE us == Trim(ts)
           r == HealConversationHead(us)
<1>1. Bound(ts) = r
  BY SoundClosed DEF Bound
<1>2. Sound(us) /\ Len(us) <= Hard
  BY TrimSound
<1> HIDE DEF us
<1>3. Sound(r) /\ Len(r) <= Len(us) /\ (HasUser(r) => Headed(r))
  BY <1>2, HealSound
<1> HIDE DEF r
<1>4. Len(r) \in Nat /\ Len(us) \in Nat /\ Hard \in Nat
  BY <1>2, <1>3, ListFacts, BoundsAssumption DEF Sound, Turns
<1>5. Len(r) <= Hard
  BY <1>2, <1>3, <1>4
<1> QED
  BY <1>1, <1>3, <1>5 DEF Stored

(* A turn without calls more.                                              *)
LEMMA SoundAppend ==
  ASSUME NEW ts, Sound(ts), NEW t, WellFormed(t), t.role # "tool", t.calls = <<>>
  PROVE  Sound(Append(ts, t))
<1>1. Full(<<t>>)
  BY FullOne
<1>2. Append(ts, t) = ts \o <<t>>
  BY ListOne DEF Sound, Turns
<1> QED
  BY <1>1, <1>2, SoundConcat

(* The turns that the code writes.                                         *)
LEMMA Written ==
  /\ \A b : WellFormed(User(b)) /\ User(b).role = "user" /\ User(b).calls = <<>>
  /\ \A cs : WellFormed(Assistant(cs)) /\ Assistant(cs).role = "assistant" /\ Assistant(cs).calls = cs
  /\ \A c : c # NoCall => WellFormed(ToolTurn(c))
  /\ \A c : ToolTurn(c).role = "tool" /\ ToolTurn(c).calls = <<>> /\ ToolTurn(c).id = c
BY DEF WellFormed, User, Assistant, ToolTurn, Turn, NoCall

(* A prompt at the end of a session.                                       *)
LEMMA StartSound ==
  ASSUME NEW ts, Sound(ts), NEW b
  PROVE  Stored(Bound(Append(ts, User(b)))) /\ Headed(Bound(Append(ts, User(b))))
<1> DEFINE t == User(b)
<1>1. WellFormed(t) /\ t.role = "user" /\ t.calls = <<>>
  BY Written
<1>2. IsList(t.calls)
  BY <1>1 DEF IsList, ToSet
<1> HIDE DEF t
<1>3. Sound(Append(ts, t))
  BY <1>1, SoundAppend
<1>4. Headed(Bound(Append(ts, t)))
  BY <1>1, <1>2, BoundUser DEF Sound
<1> QED
  BY <1>3, <1>4, BoundSound DEF t

(* Compaction cuts where no result is cut from its call.                   *)
LEMMA CompactSound ==
  ASSUME NEW c, Sound(c)
  PROVE  Sound(Compacted(c))
<1> DEFINE desired == Len(c) - KeepRecent
           safe == {i \in desired .. (Len(c) - 1) : c[i + 1].role # "tool"}
           m == SafeCut(c) + 1
           head == <<Summary(c[1])>>
           rest == SubSeq(c, m, Len(c))
<1>1. Len(c) \in Nat /\ KeepRecent \in Nat /\ IsList(c)
  BY ListFacts, BoundsAssumption DEF Turns, Sound
<1>2. CASE Len(c) <= KeepRecent + 1 \/ SafeCut(c) = 0
  BY <1>2 DEF Compacted
<1>3. CASE ~(Len(c) <= KeepRecent + 1 \/ SafeCut(c) = 0)
  <2>1. Compacted(c) = head \o rest
    BY <1>3 DEF Compacted
  <2>2. SafeCut(c) = IF desired <= 0 \/ safe = {} THEN 0 ELSE Min(safe)
    BY DEF SafeCut
  <2>3. ~(desired <= 0) /\ safe # {} /\ SafeCut(c) = Min(safe)
    <3> HIDE DEF safe, desired
    <3> QED
      BY <1>3, <2>2
  <2>4. safe \in SUBSET Nat
    BY <1>1, <2>3
  <2>5. SafeCut(c) \in safe
    <3> HIDE DEF safe, desired
    <3> QED
      BY <2>3, <2>4, LeastOf
  <2>6. m \in 1 .. Len(c) /\ c[m].role # "tool"
    BY <1>1, <2>3, <2>5
  <2> HIDE DEF m, safe, desired
  <2>7. Sound(rest) /\ Len(rest) = Len(c) - m + 1 /\ \A i \in 1 .. Len(rest) : rest[i] = c[m + i - 1]
    <3>1. m \in Nat \ {0} /\ m <= Len(c) + 1
      BY <1>1, <2>6
    <3> QED
      BY <1>1, <3>1, SoundSub, ListSub
  <2> HIDE DEF rest
  <2>8. rest[1] = c[m]
    <3>1. 1 \in 1 .. Len(rest) /\ m + 1 - 1 = m
      BY <1>1, <2>6, <2>7
    <3> QED
      BY <2>7, <3>1
  <2>9. Full(rest)
    BY <2>6, <2>7, <2>8 DEF Full
  <2>10. Full(head)
    <3> DEFINE t == Summary(c[1])
    <3>1. WellFormed(t) /\ t.role # "tool" /\ t.calls = <<>>
      BY Written DEF Summary
    <3> HIDE DEF t
    <3> QED
      BY <3>1, FullOne DEF t
  <2> HIDE DEF head
  <2> QED
    BY <2>1, <2>9, <2>10, SoundConcat DEF Full
<1> QED
  BY <1>2, <1>3

(* Calls and their results, all of them or the first ones.                 *)
LEMMA CalledSound ==
  ASSUME NEW ts, Sound(ts), NEW cs \in CallLists, NEW n \in 0 .. Len(cs)
  PROVE  LET r == Append(ts, Assistant(cs)) \o Ran(cs, n)
         IN  Sound(CloseDanglingToolCalls(r)) /\ (n = Len(cs) => Sound(r))
<1> DEFINE t == Assistant(cs)
           rs == Ran(cs, n)
           h == <<t>>
           r == Append(ts, t) \o rs
<1>1. /\ IsList(cs) /\ NoCall \notin ToSet(cs) /\ IsInjective(cs)
      /\ Len(cs) \in Nat /\ DOMAIN cs = 1 .. Len(cs) /\ n \in Nat
  BY CallsAssumption, ListFacts
<1>2. WellFormed(t) /\ t.role = "assistant" /\ t.calls = cs
  BY Written
<1>3. rs = [k \in 1 .. n |-> rs[k]] /\ \A k \in 1 .. n : rs[k] = ToolTurn(cs[k])
  BY DEF Ran
<1> HIDE DEF t, rs
<1>4. IsList(rs) /\ Len(rs) = n
  BY <1>1, <1>3, ListIntro
<1>5. \A k \in 1 .. n : rs[k].role = "tool" /\ rs[k].calls = <<>> /\ rs[k].id = cs[k]
  BY <1>3, Written
<1>6. \A k \in 1 .. n : k \in DOMAIN cs /\ cs[k] \in ToSet(cs)
  <2>1. \A k \in 1 .. n : k \in DOMAIN cs
    BY <1>1
  <2> QED
    BY <2>1 DEF ToSet
<1>7. Replies(t, rs)
  <2>1. ASSUME NEW k \in 1 .. n, NEW l \in 1 .. n, k < l
        PROVE  rs[k].id # rs[l].id
    BY <1>1, <1>5, <1>6, <2>1 DEF IsInjective
  <2>2. \A k \in 1 .. n : rs[k].id \in Calls(t) /\ rs[k].id # NoCall
    BY <1>1, <1>2, <1>5, <1>6 DEF Calls
  <2> QED
    BY <1>4, <1>5, <2>1, <2>2 DEF Replies
<1>8. n = Len(cs) => Covers(t, rs)
  BY <1>1, <1>2, <1>4, <1>5 DEF Covers, Calls, ToSet
<1>9. r = ts \o (h \o rs)
  <2>1. IsList(ts) /\ IsList(h) /\ Append(ts, t) = ts \o h
    BY ListOne DEF Sound, Turns
  <2> HIDE DEF h
  <2> QED
    BY <1>4, <2>1, ListAssociative
<1>10. Sound(CloseDanglingToolCalls(r))
  BY <1>1, <1>2, <1>7, <1>9, CloseCalled
<1>11. ASSUME n = Len(cs) PROVE Sound(r)
  <2>1. Full(h \o rs)
    BY <1>1, <1>2, <1>7, <1>8, <1>11, FullBlock
  <2> QED
    BY <1>9, <2>1, SoundConcat
<1> QED
  BY <1>10, <1>11 DEF t, rs

-----------------------------------------------------------------------------
(* Lists that are flattened. *)

(* The blocks are in the flattened list one after the other: block i is    *)
(* behind at[i] elements.                                                  *)
Placed(bs, r, at) ==
    /\ IsList(r) /\ at[1] = 0 /\ Len(r) = at[Len(bs) + 1]
    /\ \A i \in 1 .. Len(bs) : at[i] \in Nat /\ at[i + 1] = at[i] + Len(bs[i])
    /\ \A i \in 1 .. Len(bs) : \A p \in 1 .. Len(bs[i]) : at[i] + p \in 1 .. Len(r) /\ r[at[i] + p] = bs[i][p]
    /\ \A q \in 1 .. Len(r) : \E i \in 1 .. Len(bs) : \E p \in 1 .. Len(bs[i]) : q = at[i] + p

(* Flattening places its blocks.                                           *)
LEMMA FlattenPlaces ==
  ASSUME NEW bs, IsList(bs), bs # <<>>, \A i \in 1 .. Len(bs) : IsList(bs[i])
  PROVE  \E at : Placed(bs, FlattenSeq(bs), at)
<1> DEFINE n == Len(bs)
           J(i) == Joined(bs)[i]
           at == [i \in 1 .. n + 1 |-> IF i = 1 THEN 0 ELSE Len(J(i - 1))]
           Good(k) ==
             /\ IsList(J(k)) /\ at[k] \in Nat /\ at[k + 1] = Len(J(k)) /\ at[k + 1] = at[k] + Len(bs[k])
             /\ \A i \in 1 .. k : \A p \in 1 .. Len(bs[i]) : at[i] + p \in 1 .. Len(J(k)) /\ J(k)[at[i] + p] = bs[i][p]
             /\ \A q \in 1 .. Len(J(k)) : \E i \in 1 .. k : \E p \in 1 .. Len(bs[i]) : q = at[i] + p
<1>1. n \in Nat \ {0} /\ bs \in Seq(ToSet(bs))
  BY ListFacts DEF IsList, ToSet
<1>2. Joined(bs) = [i \in 1 .. n |-> IF i = 1 THEN bs[i] ELSE J(i - 1) \o bs[i]]
  BY <1>1, JoinedExists
<1>3. FlattenSeq(bs) = J(n)
  BY <1>1 DEF Joined, FlattenSeq
<1>4. /\ \A i \in 1 .. n : J(i) = IF i = 1 THEN bs[i] ELSE J(i - 1) \o bs[i]
      /\ at[1] = 0 /\ \A i \in 2 .. n + 1 : at[i] = Len(J(i - 1))
      /\ \A i \in 1 .. n : IsList(bs[i]) /\ Len(bs[i]) \in Nat
  <2>1. ASSUME NEW i \in 1 .. n
        PROVE  J(i) = IF i = 1 THEN bs[i] ELSE J(i - 1) \o bs[i]
    <3> HIDE DEF n
    <3> QED
      BY <1>2, Zenon
  <2> HIDE DEF J, n
  <2>2. at[1] = 0 /\ \A i \in 2 .. n + 1 : at[i] = Len(J(i - 1))
    BY <1>1
  <2> QED
    BY <2>1, <2>2, ListFacts DEF n
<1> HIDE DEF n, J, at
<1>5. \A i \in 1 .. n : IsList(bs[i]) /\ Len(bs[i]) \in Nat
  BY <1>4
<1>6. Good(1)
  <2>1. J(1) = bs[1] /\ at[1] = 0 /\ at[1 + 1] = Len(bs[1]) /\ IsList(bs[1]) /\ Len(bs[1]) \in Nat
    <3>1. 1 \in 1 .. n /\ 2 \in 2 .. n + 1
      BY <1>1
    <3>2. at[2] = Len(J(2 - 1))
      BY <1>4, <3>1
    <3>3. 2 - 1 = 1 /\ 1 + 1 = 2
      OBVIOUS
    <3>4. J(1) = bs[1] /\ IsList(bs[1]) /\ Len(bs[1]) \in Nat
      BY <1>4, <3>1
    <3> QED
      BY <1>4, <3>2, <3>3, <3>4
  <2>2. \A i \in 1 .. 1 : i = 1
    OBVIOUS
  <2>3. \A p \in 1 .. Len(bs[1]) : 0 + p = p
    BY <2>1
  <2>4. at[1 + 1] = at[1] + Len(bs[1])
    BY <2>1
  <2> QED
    BY <2>1, <2>2, <2>3, <2>4
<1>7. ASSUME NEW k \in 2 .. n, Good(k - 1)
      PROVE  Good(k)
  <2> DEFINE a == J(k - 1)
             b == bs[k]
             c == J(k)
  <2>1. /\ k \in 1 .. n /\ k # 1 /\ k \in 2 .. n + 1 /\ k + 1 \in 2 .. n + 1 /\ (k - 1) + 1 = k /\ (k + 1) - 1 = k
    BY <1>1
  <2>2. c = a \o b /\ at[k] = Len(a) /\ at[k + 1] = Len(c) /\ IsList(a) /\ IsList(b)
    BY <1>4, <1>7, <2>1
  <2>3. Len(a) \in Nat /\ Len(b) \in Nat
    BY <2>2, ListFacts
  <2>4. /\ \A i \in 1 .. k - 1 : \A p \in 1 .. Len(bs[i]) : at[i] + p \in 1 .. Len(a) /\ a[at[i] + p] = bs[i][p]
        /\ \A q \in 1 .. Len(a) : \E i \in 1 .. k - 1 : \E p \in 1 .. Len(bs[i]) : q = at[i] + p
    BY <1>7
  <2> HIDE DEF a, b, c, Good
  <2>5. /\ IsList(c) /\ Len(c) = Len(a) + Len(b)
        /\ \A q \in 1 .. Len(a) + Len(b) : c[q] = IF q <= Len(a) THEN a[q] ELSE b[q - Len(a)]
    BY <2>2, ListConcat
  <2>6. ASSUME NEW i \in 1 .. k, NEW p \in 1 .. Len(bs[i])
        PROVE  at[i] + p \in 1 .. Len(c) /\ c[at[i] + p] = bs[i][p]
    <3>1. CASE i = k
      <4>1. at[i] = Len(a) /\ bs[i] = b /\ p \in 1 .. Len(b)
        BY <2>2, <2>6, <3>1 DEF b
      <4>2. Len(a) + p \in 1 .. Len(a) + Len(b) /\ ~(Len(a) + p <= Len(a)) /\ (Len(a) + p) - Len(a) = p
        BY <2>3, <4>1
      <4> QED
        BY <2>5, <4>1, <4>2
    <3>2. CASE i # k
      <4>1. i \in 1 .. k - 1
        BY <3>2
      <4>2. at[i] + p \in 1 .. Len(a) /\ a[at[i] + p] = bs[i][p]
        BY <2>4, <4>1
      <4>3. at[i] + p \in 1 .. Len(a) + Len(b) /\ at[i] + p <= Len(a)
        BY <2>3, <4>2
      <4> QED
        BY <2>5, <4>2, <4>3
    <3> QED
      BY <3>1, <3>2
  <2>7. ASSUME NEW q \in 1 .. Len(c)
        PROVE  \E i \in 1 .. k : \E p \in 1 .. Len(bs[i]) : q = at[i] + p
    <3>1. CASE q <= Len(a)
      <4>1. q \in 1 .. Len(a) /\ \A i \in 1 .. k - 1 : i \in 1 .. k
        BY <2>1, <2>3, <2>5, <3>1
      <4> QED
        BY <2>4, <4>1
    <3>2. CASE ~(q <= Len(a))
      <4>1. k \in 1 .. k /\ q - Len(a) \in 1 .. Len(b) /\ q = Len(a) + (q - Len(a))
        BY <2>1, <2>3, <2>5, <3>2
      <4> QED
        BY <2>2, <4>1 DEF b
    <3> QED
      BY <3>1, <3>2
  <2> QED
    BY <2>2, <2>3, <2>5, <2>6, <2>7 DEF Good, b, c
<1> DEFINE Bad == {k \in 1 .. n : ~Good(k)}
<1>8. Bad = {}
  <2>1. SUFFICES ASSUME Bad # {} PROVE FALSE
    OBVIOUS
  <2>2. Bad \in SUBSET Nat
    BY <1>1
  <2> HIDE DEF Good
  <2>3. PICK k \in Bad : \A j \in Bad : k <= j
    <3> HIDE DEF Bad
    <3> QED
      BY <2>1, <2>2, LeastNumber
  <2>4. k \in 1 .. n /\ ~Good(k)
    BY <2>3
  <2>5. k \in 2 .. n /\ k - 1 \in 1 .. n /\ ~(k <= k - 1)
    BY <1>1, <1>6, <2>4
  <2>6. Good(k - 1)
    BY <2>3, <2>5
  <2> QED
    BY <1>7, <2>4, <2>5, <2>6
<1>9. \A k \in 1 .. n : Good(k)
  <2> HIDE DEF Good
  <2> QED
    BY <1>8
<1>10. Placed(bs, J(n), at)
  <2>1. n \in 1 .. n
    BY <1>1
  <2>2. Good(n)
    BY <1>9, <2>1
  <2>3. \A i \in 1 .. n : at[i] \in Nat /\ at[i + 1] = at[i] + Len(bs[i])
    BY <1>9
  <2> QED
    BY <1>4, <2>2, <2>3 DEF Placed, n
<1> QED
  BY <1>3, <1>10

-----------------------------------------------------------------------------
(* What is put on the wire. *)

(* Behind an assistant turn healing puts results of its calls only, and    *)
(* one of each.                                                            *)
LEMMA ResultsFacts ==
  ASSUME NEW w, Turns(w), NEW i \in 1 .. Len(w)
  PROVE  LET rs == Results(w, i)
         IN  /\ Turns(rs) /\ Covers(w[i], rs)
             /\ \A p \in 1 .. Len(rs) : rs[p].role = "tool" /\ rs[p].id \in Calls(w[i])
<1> DEFINE got  == Answered(w, i)
           cs   == w[i].calls
           L    == {n \in DOMAIN cs : \A k \in got : w[k].id # cs[n]}
           lost == Chosen(cs, L)
           mine == Chosen(w, got)
           rs   == mine \o Made(lost)
<1>1. Results(w, i) = rs
  BY DEF Results, Made
<1>2. IsList(w) /\ DOMAIN w = 1 .. Len(w) /\ Len(w) \in Nat /\ IsList(cs)
  BY ListFacts DEF Turns
<1>3. RunEnd(w, i) \in i .. Len(w)
        /\ \A k \in i .. Len(w) : k <= RunEnd(w, i) <=> \A j \in (i + 1) .. k : w[j].role = "tool"
  BY <1>2, RunEndFacts
<1>4. /\ got \in SUBSET DOMAIN w
      /\ \A k \in got : w[k].role = "tool" /\ w[k].id \in Calls(w[i])
  <2>1. SUFFICES ASSUME NEW k \in got
                 PROVE  k \in DOMAIN w /\ w[k].role = "tool" /\ w[k].id \in Calls(w[i])
    OBVIOUS
  <2>2. k \in (i + 1) .. RunEnd(w, i) /\ w[k].id \in Calls(w[i])
    BY DEF Answered
  <2>3. k \in i .. Len(w) /\ k <= RunEnd(w, i) /\ k \in (i + 1) .. k /\ k \in 1 .. Len(w)
    BY <1>2, <1>3, <2>2
  <2> QED
    BY <1>2, <1>3, <2>2, <2>3
<1> HIDE DEF got
<1>5. L \in SUBSET DOMAIN cs
  OBVIOUS
<1>6. /\ IsList(mine)
      /\ \A n \in 1 .. Len(mine) : \E k \in got : mine[n] = w[k]
      /\ \A k \in got : \E n \in 1 .. Len(mine) : mine[n] = w[k]
  BY <1>2, <1>4, ChosenList
<1>7. /\ IsList(lost)
      /\ \A n \in 1 .. Len(lost) : \E k \in L : lost[n] = cs[k]
      /\ \A k \in L : \E n \in 1 .. Len(lost) : lost[n] = cs[k]
  <2> HIDE DEF L, cs
  <2> QED
    BY <1>2, <1>5, ChosenList
<1> DEFINE us == Made(lost)
<1> HIDE DEF mine, lost
<1>8. Turns(us) /\ Len(us) = Len(lost) /\ \A n \in 1 .. Len(lost) : us[n] = Synthetic(lost[n])
  BY <1>7, MadeFacts
<1>9. \A n \in 1 .. Len(us) : us[n].role = "tool" /\ us[n].id \in Calls(w[i])
  <2>1. \A c : Synthetic(c).role = "tool" /\ Synthetic(c).id = c
    BY DEF Synthetic, Turn
  <2>2. \A k \in L : cs[k] \in Calls(w[i])
    BY DEF Calls, ToSet
  <2> QED
    BY <1>7, <1>8, <2>1, <2>2
<1>10. Turns(mine) /\ \A n \in 1 .. Len(mine) : mine[n].role = "tool" /\ mine[n].id \in Calls(w[i])
  <2>1. DOMAIN mine = 1 .. Len(mine)
    BY <1>6, ListFacts
  <2>2. \A k \in got : IsList(w[k].calls)
    BY <1>4 DEF Turns
  <2> QED
    BY <1>4, <1>6, <2>1, <2>2 DEF Turns
<1> HIDE DEF us
<1>11. Turns(rs)
  BY <1>8, <1>10, TurnsConcat DEF us
<1>12. /\ Len(rs) = Len(mine) + Len(us)
       /\ \A q \in 1 .. Len(mine) + Len(us) : rs[q] = IF q <= Len(mine) THEN mine[q] ELSE us[q - Len(mine)]
       /\ Len(mine) \in Nat /\ Len(us) \in Nat
  <2>1. IsList(us) /\ IsList(mine)
    BY <1>6, <1>8 DEF Turns
  <2> QED
    BY <2>1, ListConcat, ListFacts DEF us
<1> HIDE DEF rs
<1>13. ASSUME NEW q \in 1 .. Len(rs)
       PROVE  rs[q].role = "tool" /\ rs[q].id \in Calls(w[i])
  <2>1. (q \in 1 .. Len(mine) /\ q <= Len(mine)) \/ (q - Len(mine) \in 1 .. Len(us) /\ ~(q <= Len(mine)))
    BY <1>12
  <2> QED
    BY <1>9, <1>10, <1>12, <2>1
<1>14. Covers(w[i], rs)
  <2>1. SUFFICES ASSUME NEW c \in Calls(w[i]) PROVE \E q \in 1 .. Len(rs) : rs[q].id = c
    BY DEF Covers
  <2>2. PICK n \in DOMAIN cs : c = cs[n]
    BY DEF Calls, ToSet
  <2>3. CASE n \in L
    <3>1. PICK j \in 1 .. Len(lost) : lost[j] = cs[n]
      BY <1>7, <2>3
    <3>4. Synthetic(c).id = c
      BY DEF Synthetic, Turn
    <3>5. lost[j] = c /\ us[j] = Synthetic(lost[j]) /\ j \in 1 .. Len(us)
      BY <1>8, <2>2, <3>1
    <3>2. us[j].id = c /\ j \in 1 .. Len(us)
      BY <3>4, <3>5
    <3>3. /\ Len(mine) + j \in 1 .. Len(mine) + Len(us) /\ ~(Len(mine) + j <= Len(mine))
          /\ (Len(mine) + j) - Len(mine) = j
      BY <1>12, <3>2
    <3> QED
      BY <1>12, <3>2, <3>3
  <2>4. CASE n \notin L
    <3>1. PICK k \in got : w[k].id = cs[n]
      BY <2>4
    <3>2. PICK j \in 1 .. Len(mine) : mine[j] = w[k]
      BY <1>6
    <3>3. j \in 1 .. Len(mine) + Len(us) /\ j <= Len(mine)
      BY <1>12
    <3> QED
      BY <1>12, <2>2, <3>1, <3>2, <3>3
  <2> QED
    BY <2>3, <2>4
<1> QED
  BY <1>1, <1>11, <1>13, <1>14

(* Every call of an assistant turn has its result right behind it, every   *)
(* result its call.                                                        *)
Matched(h) ==
    /\ \A i \in 1 .. Len(h) : h[i].role = "assistant" =>
          \A c \in Calls(h[i]) : \E k \in 1 .. Len(h) : h[k].id = c /\ Answers(h, k, i)
    /\ \A k \in 1 .. Len(h) : h[k].role = "tool" => \E i \in 1 .. Len(h) : Answers(h, k, i)

(* The blocks that healing makes of the turns.                             *)
Healed(w) == [i \in DOMAIN w |-> CASE w[i].role = "assistant" -> <<w[i]>> \o Results(w, i)
                                   [] w[i].role = "user"      -> <<w[i]>>
                                   [] OTHER                   -> <<>>]

(* The blocks, by role.                                                    *)
LEMMA HealedFacts ==
  ASSUME NEW w, Turns(w), w # <<>>
  PROVE  /\ IsList(Healed(w)) /\ Healed(w) # <<>> /\ Len(Healed(w)) = Len(w)
         /\ \A i \in 1 .. Len(w) :
              /\ Turns(Healed(w)[i])
              /\ w[i].role = "assistant" => Healed(w)[i] = <<w[i]>> \o Results(w, i)
              /\ w[i].role = "user" => Healed(w)[i] = <<w[i]>>
              /\ w[i].role \notin {"assistant", "user"} => Healed(w)[i] = <<>>
<1> DEFINE bs == Healed(w)
           n == Len(w)
<1>1. n \in Nat \ {0} /\ DOMAIN w = 1 .. n
  BY ListFacts DEF Turns
<1>2. bs = [i \in 1 .. n |-> bs[i]]
  BY <1>1 DEF Healed
<1>3. ASSUME NEW i \in 1 .. n
      PROVE  /\ w[i].role = "assistant" => bs[i] = <<w[i]>> \o Results(w, i)
             /\ w[i].role = "user" => bs[i] = <<w[i]>>
             /\ w[i].role \notin {"assistant", "user"} => bs[i] = <<>>
  <2>1. bs[i] = CASE w[i].role = "assistant" -> <<w[i]>> \o Results(w, i)
                  [] w[i].role = "user"      -> <<w[i]>>
                  [] OTHER                   -> <<>>
    BY <1>1 DEF Healed
  <2> HIDE DEF bs
  <2> QED
    BY <2>1
<1> HIDE DEF bs, n
<1>4. IsList(bs) /\ Len(bs) = n
  BY <1>1, <1>2, ListIntro
<1>5. bs # <<>>
  BY <1>1, <1>4, ListFacts
<1>6. ASSUME NEW i \in 1 .. n
      PROVE  Turns(bs[i])
  <2>1. Turns(<<w[i]>>)
    <3> DEFINE h == <<w[i]>>
    <3>1. IsList(h) /\ Len(h) = 1 /\ h[1] = w[i]
      BY ListOne
    <3> HIDE DEF h
    <3>2. \A j \in DOMAIN h : h[j] = w[i]
      BY <3>1, ListFacts
    <3>3. IsList(w[i].calls)
      BY <1>1 DEF Turns
    <3> QED
      BY <3>1, <3>2, <3>3 DEF Turns, h
  <2>2. Turns(Results(w, i))
    BY ResultsFacts DEF n
  <2>3. Turns(<<>>)
    BY DEF Turns, IsList, ToSet
  <2>4. Turns(<<w[i]>> \o Results(w, i))
    BY <2>1, <2>2, TurnsConcat
  <2> QED
    BY <1>3, <2>1, <2>3, <2>4
<1> QED
  BY <1>3, <1>4, <1>5, <1>6 DEF bs, n

(* Whatever the turns, healing leaves no call and no result without its    *)
(* other half.                                                             *)
LEMMA HealMatched ==
  ASSUME NEW w, Turns(w), Headed(w)
  PROVE  /\ IsList(HealToolPairing(w)) /\ Headed(HealToolPairing(w)) /\ Matched(HealToolPairing(w))
<1> DEFINE bs == Healed(w)
           n == Len(w)
           h == HealToolPairing(w)
<1>1. h = FlattenSeq(bs)
  BY DEF HealToolPairing, Healed
<1>2. /\ IsList(bs) /\ bs # <<>> /\ Len(bs) = n
      /\ \A i \in 1 .. n :
              /\ Turns(bs[i])
              /\ w[i].role = "assistant" => bs[i] = <<w[i]>> \o Results(w, i)
              /\ w[i].role = "user" => bs[i] = <<w[i]>>
              /\ w[i].role \notin {"assistant", "user"} => bs[i] = <<>>
  BY HealedFacts DEF Headed
<1> HIDE DEF bs, h, n
<1>3. \A i \in 1 .. n : IsList(bs[i]) /\ Len(bs[i]) \in Nat
  BY <1>2, ListFacts DEF Turns
<1>4. PICK at : Placed(bs, h, at)
  BY <1>1, <1>2, <1>3, FlattenPlaces
<1>5. /\ IsList(h) /\ at[1] = 0
      /\ \A i \in 1 .. n : at[i] \in Nat
      /\ \A i \in 1 .. n : \A p \in 1 .. Len(bs[i]) : at[i] + p \in 1 .. Len(h) /\ h[at[i] + p] = bs[i][p]
      /\ \A q \in 1 .. Len(h) : \E i \in 1 .. n : \E p \in 1 .. Len(bs[i]) : q = at[i] + p
  BY <1>2, <1>4 DEF Placed
<1>6. ASSUME NEW i \in 1 .. n, w[i].role = "assistant"
      PROVE  /\ bs[i][1] = w[i] /\ 1 \in 1 .. Len(bs[i])
             /\ \A p \in 2 .. Len(bs[i]) : bs[i][p].role = "tool" /\ bs[i][p].id \in Calls(w[i])
             /\ \A c \in Calls(w[i]) : \E p \in 2 .. Len(bs[i]) : bs[i][p].id = c
  <2> DEFINE one == <<w[i]>>
             rs == Results(w, i)
             b == one \o rs
  <2>1. IsList(one) /\ Len(one) = 1 /\ one[1] = w[i]
    BY ListOne
  <2>2. /\ Turns(rs) /\ Covers(w[i], rs)
        /\ \A p \in 1 .. Len(rs) : rs[p].role = "tool" /\ rs[p].id \in Calls(w[i])
    BY ResultsFacts DEF n
  <2> HIDE DEF one, rs
  <2>3. /\ IsList(b) /\ Len(b) = 1 + Len(rs) /\ Len(rs) \in Nat
        /\ \A p \in 1 .. 1 + Len(rs) : b[p] = IF p <= 1 THEN one[p] ELSE rs[p - 1]
    <3>1. IsList(rs) /\ Len(rs) \in Nat
      BY <2>2, ListFacts DEF Turns
    <3>2. /\ IsList(b) /\ Len(b) = Len(one) + Len(rs)
          /\ \A p \in 1 .. Len(one) + Len(rs) : b[p] = IF p <= Len(one) THEN one[p] ELSE rs[p - Len(one)]
      BY <2>1, <3>1, ListConcat
    <3> HIDE DEF b
    <3> QED
      BY <2>1, <3>1, <3>2
  <2>4. bs[i] = b
    BY <1>2, <1>6 DEF one, rs
  <2> HIDE DEF b
  <2>5. ASSUME NEW p \in 2 .. Len(b)
        PROVE  b[p].role = "tool" /\ b[p].id \in Calls(w[i])
    <3>1. p \in 1 .. 1 + Len(rs) /\ ~(p <= 1) /\ p - 1 \in 1 .. Len(rs)
      BY <2>3
    <3> QED
      BY <2>2, <2>3, <3>1
  <2>6. ASSUME NEW c \in Calls(w[i])
        PROVE  \E p \in 2 .. Len(b) : b[p].id = c
    <3>1. PICK k \in 1 .. Len(rs) : rs[k].id = c
      BY <2>2 DEF Covers
    <3>2. k + 1 \in 1 .. 1 + Len(rs) /\ k + 1 \in 2 .. Len(b) /\ ~(k + 1 <= 1) /\ (k + 1) - 1 = k
      BY <2>3
    <3> QED
      BY <2>3, <3>1, <3>2
  <2>7. b[1] = w[i] /\ 1 \in 1 .. Len(b)
    BY <2>1, <2>3
  <2> QED
    BY <2>4, <2>5, <2>6, <2>7
<1>7. ASSUME NEW i \in 1 .. n, NEW p \in 1 .. Len(bs[i])
      PROVE  w[i].role = "assistant" \/ (w[i].role = "user" /\ p = 1 /\ bs[i][p] = w[i])
  <2>1. Len(<<>>) = 0
    OBVIOUS
  <2>2. w[i].role \in {"assistant", "user"}
    <3>1. SUFFICES ASSUME w[i].role \notin {"assistant", "user"} PROVE FALSE
      OBVIOUS
    <3>2. bs[i] = <<>>
      BY <1>2, <3>1
    <3>3. p \in 1 .. 0
      BY <1>7, <2>1, <3>2
    <3> QED
      BY <3>3
  <2>3. Len(<<w[i]>>) = 1 /\ <<w[i]>>[1] = w[i]
    BY ListOne
  <2>4. w[i].role = "user" => Len(bs[i]) = 1 /\ bs[i][1] = w[i]
    BY <1>2, <2>3
  <2>5. w[i].role = "user" => p = 1
    <3>1. w[i].role = "user" => p \in 1 .. 1
      BY <1>7, <2>4
    <3> QED
      BY <3>1
  <2> QED
    BY <2>2, <2>4, <2>5
<1>8. ASSUME NEW i \in 1 .. n, w[i].role = "assistant", NEW p \in 2 .. Len(bs[i])
      PROVE  Answers(h, at[i] + p, at[i] + 1)
  <2>1. ASSUME NEW j \in (at[i] + 1 + 1) .. (at[i] + p)
        PROVE  h[j].role = "tool"
    <3> DEFINE a == at[i]
               l == Len(bs[i])
               d == j - a
    <3>1. a \in Nat /\ l \in Nat /\ p \in 2 .. l /\ j \in (a + 1 + 1) .. (a + p)
      BY <1>3, <1>5
    <3>2. d \in 2 .. l /\ d \in 1 .. l /\ a + d = j
      <4> HIDE DEF a, l
      <4> QED
        BY <3>1
    <3> HIDE DEF d
    <3>3. h[at[i] + d] = bs[i][d]
      BY <1>5, <3>2
    <3>4. bs[i][d].role = "tool"
      BY <1>6, <1>8, <3>2
    <3> QED
      BY <3>2, <3>3, <3>4
  <2>2. /\ at[i] + 1 < at[i] + p /\ p \in 1 .. Len(bs[i])
    BY <1>3, <1>5
  <2>3. h[at[i] + 1] = w[i] /\ h[at[i] + p] = bs[i][p]
    BY <1>5, <1>6, <1>8, <2>2
  <2> QED
    BY <1>6, <1>8, <2>1, <2>2, <2>3, AnswersFacts
<1>9. ASSUME NEW q \in 1 .. Len(h), h[q].role = "assistant", NEW c \in Calls(h[q])
      PROVE  \E k \in 1 .. Len(h) : h[k].id = c /\ Answers(h, k, q)
  <2>1. PICK i \in 1 .. n : \E p \in 1 .. Len(bs[i]) : q = at[i] + p
    BY <1>5
  <2>2. PICK p \in 1 .. Len(bs[i]) : q = at[i] + p
    BY <2>1
  <2>3. h[q] = bs[i][p]
    BY <1>5, <2>2
  <2>4. w[i].role = "assistant"
    BY <1>7, <1>9, <2>3
  <2>5. p = 1
    <3>1. p \in 2 .. Len(bs[i]) => bs[i][p].role = "tool"
      BY <1>6, <2>4
    <3>2. p = 1 \/ p \in 2 .. Len(bs[i])
      BY <1>3
    <3> QED
      BY <1>9, <2>3, <3>1, <3>2
  <2>6. c \in Calls(w[i])
    BY <1>6, <1>9, <2>3, <2>4, <2>5
  <2>7. PICK r \in 2 .. Len(bs[i]) : bs[i][r].id = c
    BY <1>6, <2>4, <2>6
  <2>8. r \in 1 .. Len(bs[i])
    BY <1>3
  <2>9. at[i] + r \in 1 .. Len(h) /\ h[at[i] + r].id = c
    BY <1>5, <2>7, <2>8
  <2> QED
    BY <1>8, <2>2, <2>4, <2>5, <2>9
<1>10. ASSUME NEW k \in 1 .. Len(h), h[k].role = "tool"
       PROVE  \E i \in 1 .. Len(h) : Answers(h, k, i)
  <2>1. PICK i \in 1 .. n : \E p \in 1 .. Len(bs[i]) : k = at[i] + p
    BY <1>5
  <2>2. PICK p \in 1 .. Len(bs[i]) : k = at[i] + p
    BY <2>1
  <2>3. h[k] = bs[i][p]
    BY <1>5, <2>2
  <2>4. w[i].role = "assistant"
    BY <1>7, <1>10, <2>3
  <2>5. p \in 2 .. Len(bs[i])
    <3>1. p # 1
      BY <1>6, <1>10, <2>3, <2>4
    <3> QED
      BY <1>3, <3>1
  <2>6. at[i] + 1 \in 1 .. Len(h)
    BY <1>5, <1>6, <2>4
  <2> QED
    BY <1>8, <2>2, <2>4, <2>5, <2>6
<1>11. Headed(h)
  <2>1. w[1].role = "user" /\ 1 \in 1 .. n
    BY ListFacts DEF Headed, Turns, n
  <2>2. Len(bs[1]) = 1 /\ bs[1][1] = w[1]
    <3>1. Len(<<w[1]>>) = 1 /\ <<w[1]>>[1] = w[1]
      BY ListOne
    <3> QED
      BY <1>2, <2>1, <3>1
  <2>3. 1 \in 1 .. Len(h) /\ h[1] = w[1]
    <3>1. 1 \in 1 .. Len(bs[1]) /\ at[1] + 1 = 1
      BY <1>5, <2>2
    <3>2. at[1] + 1 \in 1 .. Len(h) /\ h[at[1] + 1] = bs[1][1]
      BY <1>5, <2>1, <3>1
    <3> QED
      BY <2>2, <3>1, <3>2
  <2>4. h # <<>>
    BY <1>5, <2>3, ListFacts
  <2> QED
    BY <2>1, <2>3, <2>4 DEF Headed
<1> QED
  BY <1>5, <1>9, <1>10, <1>11 DEF Matched, h

(* One message for each turn, and one for each run of results: the API     *)
(* accepts them.                                                           *)
Opens(ts, i) == ts[i].role # "tool" \/ i = 1 \/ ts[i - 1].role # "tool"

(* The results of the run at i.                                            *)
Batched(ts, i) == {ts[k].id : k \in i .. RunEnd(ts, i)}

(* The message, if any, that each turn begins.                             *)
Sent(ts) == [i \in DOMAIN ts |->
    CASE ts[i].role = "user"                   -> <<Message("user", {}, {})>>
      [] ts[i].role = "assistant"              -> <<Message("assistant", Calls(ts[i]), {})>>
      [] ts[i].role = "tool" /\ Opens(ts, i)   -> <<Message("user", {}, Batched(ts, i))>>
      [] OTHER                                 -> <<>>]

(* The messages, by role.                                                  *)
LEMMA SentFacts ==
  ASSUME NEW h, IsList(h), h # <<>>
  PROVE  /\ IsList(Sent(h)) /\ Sent(h) # <<>> /\ Len(Sent(h)) = Len(h) /\ Messages(h) = FlattenSeq(Sent(h))
         /\ \A i \in 1 .. Len(h) :
              /\ IsList(Sent(h)[i])
              /\ h[i].role = "user" => Sent(h)[i] = <<Message("user", {}, {})>>
              /\ h[i].role = "assistant" => Sent(h)[i] = <<Message("assistant", Calls(h[i]), {})>>
              /\ h[i].role = "tool" /\ Opens(h, i) => Sent(h)[i] = <<Message("user", {}, Batched(h, i))>>
              /\ h[i].role \notin {"user", "assistant"} /\ ~(h[i].role = "tool" /\ Opens(h, i)) => Sent(h)[i] = <<>>
<1> DEFINE bs == Sent(h)
           n == Len(h)
<1>1. n \in Nat \ {0} /\ DOMAIN h = 1 .. n
  BY ListFacts
<1>2. bs = [i \in 1 .. n |-> bs[i]]
  BY <1>1 DEF Sent
<1>3. Messages(h) = FlattenSeq(bs)
  BY DEF Messages, Sent, Opens, Batched
<1>4. ASSUME NEW i \in 1 .. n
      PROVE  bs[i] = CASE h[i].role = "user"                -> <<Message("user", {}, {})>>
                       [] h[i].role = "assistant"           -> <<Message("assistant", Calls(h[i]), {})>>
                       [] h[i].role = "tool" /\ Opens(h, i) -> <<Message("user", {}, Batched(h, i))>>
                       [] OTHER                             -> <<>>
  BY <1>1 DEF Sent
<1> HIDE DEF bs, n
<1>5. IsList(bs) /\ Len(bs) = n
  BY <1>1, <1>2, ListIntro
<1>6. bs # <<>>
  BY <1>1, <1>5, ListFacts
<1>7. ASSUME NEW i \in 1 .. n
      PROVE  /\ h[i].role = "user" => bs[i] = <<Message("user", {}, {})>>
             /\ h[i].role = "assistant" => bs[i] = <<Message("assistant", Calls(h[i]), {})>>
             /\ h[i].role = "tool" /\ Opens(h, i) => bs[i] = <<Message("user", {}, Batched(h, i))>>
             /\ h[i].role \notin {"user", "assistant"} /\ ~(h[i].role = "tool" /\ Opens(h, i)) => bs[i] = <<>>
  <2> DEFINE b == bs[i]
             x == <<Message("user", {}, {})>>
             y == <<Message("assistant", Calls(h[i]), {})>>
             z == <<Message("user", {}, Batched(h, i))>>
             role == h[i].role
             opens == Opens(h, i)
  <2>1. b = CASE role = "user" -> x [] role = "assistant" -> y [] role = "tool" /\ opens -> z [] OTHER -> <<>>
    BY <1>4
  <2> HIDE DEF b, x, y, z, role, opens
  <2>2. /\ role = "user" => b = x
        /\ role = "assistant" => b = y
        /\ role = "tool" /\ opens => b = z
        /\ role \notin {"user", "assistant"} /\ ~(role = "tool" /\ opens) => b = <<>>
    BY <2>1
  <2> QED
    BY <2>2 DEF b, x, y, z, role, opens
<1>8. ASSUME NEW i \in 1 .. n
      PROVE  IsList(bs[i])
  <2>1. IsList(<<>>)
    BY DEF IsList, ToSet
  <2>2. \A m : IsList(<<m>>)
    BY ListOne
  <2> DEFINE Role == h[i].role
  <2>3. Role = "user" \/ Role = "assistant" \/ (Role = "tool" /\ Opens(h, i))
        \/ (Role \notin {"user", "assistant"} /\ ~(Role = "tool" /\ Opens(h, i)))
    OBVIOUS
  <2> QED
    BY <1>7, <2>1, <2>2, <2>3
<1> QED
  BY <1>3, <1>5, <1>6, <1>7, <1>8 DEF bs, n

(* The API accepts the messages of matched turns: runs of results are in   *)
(* one message, behind the message with their calls.                       *)
LEMMA MessagesAccepted ==
  ASSUME NEW h, IsList(h), Headed(h), Matched(h)
  PROVE  Accepted(Messages(h))
<1> DEFINE bs == Sent(h)
           n == Len(h)
           ms == Messages(h)
<1>1. /\ IsList(bs) /\ bs # <<>> /\ Len(bs) = n /\ ms = FlattenSeq(bs)
      /\ \A i \in 1 .. n :
              /\ IsList(bs[i])
              /\ h[i].role = "user" => bs[i] = <<Message("user", {}, {})>>
              /\ h[i].role = "assistant" => bs[i] = <<Message("assistant", Calls(h[i]), {})>>
              /\ h[i].role = "tool" /\ Opens(h, i) => bs[i] = <<Message("user", {}, Batched(h, i))>>
              /\ h[i].role \notin {"user", "assistant"} /\ ~(h[i].role = "tool" /\ Opens(h, i)) => bs[i] = <<>>
  BY SentFacts DEF Headed
<1>2. n \in Nat \ {0} /\ h[1].role = "user"
  BY ListFacts DEF Headed
<1>3. /\ \A i \in 1 .. n : h[i].role = "assistant" =>
            \A c \in Calls(h[i]) : \E k \in 1 .. n : h[k].id = c /\ Answers(h, k, i)
      /\ \A k \in 1 .. n : h[k].role = "tool" => \E i \in 1 .. n : Answers(h, k, i)
  BY DEF Matched
<1> HIDE DEF bs, n, ms
<1>4. PICK at : Placed(bs, ms, at)
  BY <1>1, FlattenPlaces
<1>5. /\ IsList(ms) /\ at[1] = 0
      /\ \A i \in 1 .. n : at[i] \in Nat /\ at[i + 1] = at[i] + Len(bs[i])
      /\ \A i \in 1 .. n : \A p \in 1 .. Len(bs[i]) : at[i] + p \in 1 .. Len(ms) /\ ms[at[i] + p] = bs[i][p]
      /\ \A q \in 1 .. Len(ms) : \E i \in 1 .. n : \E p \in 1 .. Len(bs[i]) : q = at[i] + p
  BY <1>1, <1>4 DEF Placed
(* The message of a turn, and where it is. *)
<1>6. ASSUME NEW i \in 1 .. n, NEW m, bs[i] = <<m>>
      PROVE  ms[at[i] + 1] = m /\ at[i] + 1 \in 1 .. Len(ms) /\ at[i + 1] = at[i] + 1
  <2>1. Len(bs[i]) = 1 /\ bs[i][1] = m
    BY <1>6, ListOne
  <2>2. 1 \in 1 .. Len(bs[i])
    BY <2>1
  <2> QED
    BY <1>5, <2>1, <2>2
<1>7. ASSUME NEW q \in 1 .. Len(ms)
      PROVE  \E i \in 1 .. n : /\ q = at[i] + 1
                               /\ \/ h[i].role = "user" /\ ms[q] = Message("user", {}, {})
                                  \/ h[i].role = "assistant" /\ ms[q] = Message("assistant", Calls(h[i]), {})
                                  \/ h[i].role = "tool" /\ Opens(h, i) /\ ms[q] = Message("user", {}, Batched(h, i))
  <2>1. PICK i \in 1 .. n : \E p \in 1 .. Len(bs[i]) : q = at[i] + p
    BY <1>5
  <2>2. PICK p \in 1 .. Len(bs[i]) : q = at[i] + p
    BY <2>1
  <2>3. ms[q] = bs[i][p]
    BY <1>5, <2>2
  <2>4. ASSUME NEW m, bs[i] = <<m>>
        PROVE  q = at[i] + 1 /\ ms[q] = m
    <3>1. Len(bs[i]) = 1 /\ bs[i][1] = m
      BY <2>4, ListOne
    <3>2. p \in 1 .. 1
      BY <3>1
    <3>3. p = 1
      BY <3>2
    <3> QED
      BY <2>2, <2>3, <3>1, <3>3
  <2>5. bs[i] # <<>>
    <3>1. SUFFICES ASSUME bs[i] = <<>> PROVE FALSE
      OBVIOUS
    <3>2. p \in 1 .. 0
      BY <3>1
    <3> QED
      BY <3>2
  <2>6. CASE h[i].role = "user"
    BY <1>1, <2>4, <2>6
  <2>7. CASE h[i].role = "assistant"
    BY <1>1, <2>4, <2>7
  <2>8. CASE h[i].role = "tool" /\ Opens(h, i)
    BY <1>1, <2>4, <2>8
  <2> QED
    BY <1>1, <2>5, <2>6, <2>7, <2>8
<1>8. \A r, u, s : Message(r, u, s).role = r /\ Message(r, u, s).uses = u /\ Message(r, u, s).results = s
  BY DEF Message
<1>9. ms # <<>> => ms[1].role = "user"
  <2>1. 1 \in 1 .. n /\ at[1] + 1 = 1
    BY <1>2, <1>5
  <2>2. bs[1] = <<Message("user", {}, {})>>
    BY <1>1, <1>2, <2>1
  <2>3. ms[1] = Message("user", {}, {})
    BY <1>6, <2>1, <2>2
  <2> QED
    BY <1>8, <2>3
(* The run of results behind a turn is that of its calls. *)
<1>10. ASSUME NEW i \in 2 .. n, h[i].role = "tool", h[i - 1].role = "assistant"
       PROVE  Batched(h, i) \subseteq Calls(h[i - 1])
  <2>1. SUFFICES ASSUME NEW k \in i .. RunEnd(h, i) PROVE h[k].id \in Calls(h[i - 1])
    BY DEF Batched
  <2>2. i \in 1 .. n /\ i - 1 \in 1 .. n
    BY <1>2
  <2>3. /\ RunEnd(h, i) \in i .. n
        /\ \A l \in i .. n : l <= RunEnd(h, i) <=> \A j \in (i + 1) .. l : h[j].role = "tool"
    BY <2>2, RunEndFacts DEF n
  <2>4. k \in 1 .. n /\ k \in i .. n /\ k <= RunEnd(h, i)
    BY <1>2, <2>3
  <2>5. \A j \in i .. k : h[j].role = "tool"
    <3>1. \A j \in (i + 1) .. k : h[j].role = "tool"
      BY <2>3, <2>4
    <3>2. \A j \in i .. k : j = i \/ j \in (i + 1) .. k
      BY <2>4
    <3> QED
      BY <1>10, <3>1, <3>2
  <2>6. h[k].role = "tool"
    BY <2>4, <2>5
  <2>7. PICK o \in 1 .. n : Answers(h, k, o)
    BY <1>3, <2>4, <2>6
  <2>8. o < k /\ h[o].role = "assistant" /\ h[k].id \in Calls(h[o]) /\ \A j \in (o + 1) .. k : h[j].role = "tool"
    BY <2>7, AnswersFacts
  <2>9. ~(o \in i .. k)
    BY <2>5, <2>8
  <2>10. ~(i - 1 \in (o + 1) .. k)
    BY <1>10, <2>8
  <2>11. o = i - 1
    BY <1>2, <2>4, <2>8, <2>9, <2>10
  <2> QED
    BY <2>8, <2>11
<1>11. ASSUME NEW q \in 1 .. Len(ms), ms[q].uses # {}
       PROVE  q < Len(ms) /\ ms[q].uses \subseteq ms[q + 1].results
  <2>1. PICK i \in 1 .. n : /\ q = at[i] + 1
                            /\ \/ h[i].role = "user" /\ ms[q] = Message("user", {}, {})
                               \/ h[i].role = "assistant" /\ ms[q] = Message("assistant", Calls(h[i]), {})
                               \/ h[i].role = "tool" /\ Opens(h, i) /\ ms[q] = Message("user", {}, Batched(h, i))
    BY <1>7
  <2>2. h[i].role = "assistant" /\ ms[q].uses = Calls(h[i])
    BY <1>8, <1>11, <2>1
  <2>3. \A c \in Calls(h[i]) : \E k \in i + 1 .. n : h[k].id = c /\ \A j \in (i + 1) .. k : h[j].role = "tool"
    <3>1. SUFFICES ASSUME NEW c \in Calls(h[i])
                   PROVE  \E k \in i + 1 .. n : h[k].id = c /\ \A j \in (i + 1) .. k : h[j].role = "tool"
      OBVIOUS
    <3>2. PICK k \in 1 .. n : h[k].id = c /\ Answers(h, k, i)
      BY <1>3, <2>2
    <3>3. i < k /\ \A j \in (i + 1) .. k : h[j].role = "tool"
      BY <3>2, AnswersFacts
    <3>4. k \in i + 1 .. n
      BY <1>2, <3>3
    <3> QED
      BY <3>2, <3>3, <3>4
  <2>4. i + 1 \in 2 .. n /\ h[i + 1].role = "tool"
    <3>1. PICK c \in Calls(h[i]) : TRUE
      BY <1>11, <2>2
    <3>2. PICK k \in i + 1 .. n : \A j \in (i + 1) .. k : h[j].role = "tool"
      BY <2>3
    <3>3. i + 1 \in (i + 1) .. k /\ i + 1 \in 2 .. n
      BY <1>2, <3>2
    <3> QED
      BY <3>2, <3>3
  <2>5. Opens(h, i + 1)
    <3>1. (i + 1) - 1 = i
      OBVIOUS
    <3>2. h[(i + 1) - 1].role # "tool"
      BY <2>2, <3>1
    <3> QED
      BY <3>2, Zenon DEF Opens
  <2>6. i + 1 \in 1 .. n
    BY <2>4
  <2>7. bs[i + 1] = <<Message("user", {}, Batched(h, i + 1))>>
    BY <1>1, <2>4, <2>5, <2>6
  <2>8. ms[at[i + 1] + 1] = Message("user", {}, Batched(h, i + 1)) /\ at[i + 1] + 1 \in 1 .. Len(ms)
    BY <1>6, <2>6, <2>7
  <2>9. at[i + 1] = q
    BY <1>1, <1>6, <2>1, <2>2
  <2>10. Calls(h[i]) \subseteq Batched(h, i + 1)
    <3>1. SUFFICES ASSUME NEW c \in Calls(h[i]) PROVE c \in Batched(h, i + 1)
      OBVIOUS
    <3>2. PICK k \in i + 1 .. n : h[k].id = c /\ \A j \in (i + 1) .. k : h[j].role = "tool"
      BY <2>3
    <3> DEFINE e == i + 1
    <3>3. e \in 1 .. n /\ k \in e .. n /\ \A j \in (e + 1) .. k : h[j].role = "tool"
      BY <2>6, <3>2
    <3> HIDE DEF e
    <3>4. k <= RunEnd(h, e) /\ RunEnd(h, e) \in e .. n
      BY <3>3, RunEndFacts DEF n
    <3>5. k \in e .. RunEnd(h, e)
      BY <1>2, <3>3, <3>4
    <3> QED
      BY <3>2, <3>5 DEF Batched, e
  <2> QED
    BY <1>8, <2>2, <2>8, <2>9, <2>10
<1>12. ASSUME NEW q \in 1 .. Len(ms), ms[q].results # {}
       PROVE  q > 1 /\ ms[q].results \subseteq ms[q - 1].uses
  <2>1. PICK i \in 1 .. n : /\ q = at[i] + 1
                            /\ \/ h[i].role = "user" /\ ms[q] = Message("user", {}, {})
                               \/ h[i].role = "assistant" /\ ms[q] = Message("assistant", Calls(h[i]), {})
                               \/ h[i].role = "tool" /\ Opens(h, i) /\ ms[q] = Message("user", {}, Batched(h, i))
    BY <1>7
  <2>2. h[i].role = "tool" /\ Opens(h, i) /\ ms[q].results = Batched(h, i)
    BY <1>8, <1>12, <2>1
  <2>3. PICK o \in 1 .. n : Answers(h, i, o)
    BY <1>3, <2>2
  <2>4. o < i /\ h[o].role = "assistant" /\ \A j \in (o + 1) .. i : h[j].role = "tool"
    BY <2>3, AnswersFacts
  <2>5. i # 1 /\ h[i - 1].role # "tool"
    BY <1>2, <2>2, <2>4 DEF Opens
  <2>6. ~(i - 1 \in (o + 1) .. i)
    BY <2>4, <2>5
  <2>7. o = i - 1 /\ i \in 2 .. n
    BY <1>2, <2>4, <2>5, <2>6
  <2>8. h[i - 1].role = "assistant" /\ i - 1 \in 1 .. n /\ (i - 1) + 1 = i
    BY <2>4, <2>7
  <2>9. bs[i - 1] = <<Message("assistant", Calls(h[i - 1]), {})>>
    BY <1>1, <2>8
  <2>10. /\ ms[at[i - 1] + 1] = Message("assistant", Calls(h[i - 1]), {})
         /\ at[i - 1] + 1 \in 1 .. Len(ms) /\ at[i] = at[i - 1] + 1
    BY <1>6, <2>8, <2>9
  <2>11. at[i - 1] \in Nat
    BY <1>5, <2>8
  <2>12. q > 1 /\ q - 1 = at[i - 1] + 1
    BY <2>1, <2>10, <2>11
  <2>13. Batched(h, i) \subseteq Calls(h[i - 1])
    BY <1>10, <2>2, <2>7, <2>8
  <2> QED
    BY <1>8, <2>2, <2>10, <2>12, <2>13
<1>13. DOMAIN ms = 1 .. Len(ms)
  BY <1>5, ListFacts
<1> QED
  BY <1>9, <1>11, <1>12, <1>13 DEF Accepted, ms

(* In a whole conversation healing changes nothing.                        *)
LEMMA RunEndNext ==
  ASSUME NEW ts, IsList(ts), NEW i \in 1 .. Len(ts), i + 1 \in 1 .. Len(ts)
  PROVE  /\ ts[i + 1].role # "tool" => RunEnd(ts, i) = i
         /\ ts[i + 1].role = "tool" => RunEnd(ts, i + 1) = RunEnd(ts, i)
<1> DEFINE n == Len(ts)
           d == RunEnd(ts, i)
           f == i + 1
           e == RunEnd(ts, f)
<1>1. n \in Nat /\ i \in 1 .. n /\ f \in 1 .. n /\ f = i + 1
  BY ListFacts
<1> HIDE DEF n, d, f, e
<1>2. d \in i .. n /\ \A k \in i .. n : k <= d <=> \A j \in (i + 1) .. k : ts[j].role = "tool"
  BY <1>1, RunEndFacts DEF n, d
<1>3. e \in f .. n /\ \A k \in f .. n : k <= e <=> \A j \in (f + 1) .. k : ts[j].role = "tool"
  BY <1>1, RunEndFacts DEF n, e
<1>4. ASSUME ts[f].role # "tool" PROVE d = i
  <2>1. ~(d >= f)
    <3>1. SUFFICES ASSUME d >= f PROVE FALSE
      OBVIOUS
    <3>2. f \in i .. n /\ f <= d /\ f \in (i + 1) .. f
      BY <1>1, <1>2, <3>1
    <3> QED
      BY <1>2, <1>4, <3>2
  <2> QED
    BY <1>1, <1>2, <2>1
<1>5. ASSUME ts[f].role = "tool" PROVE e = d
  <2>1. e <= d
    <3>1. e \in i .. n /\ e \in f .. n
      BY <1>1, <1>3
    <3>2. \A j \in (f + 1) .. e : ts[j].role = "tool"
      BY <1>3, <3>1
    <3>3. \A j \in (i + 1) .. e : j = f \/ j \in (f + 1) .. e
      BY <1>1, <3>1
    <3>4. \A j \in (i + 1) .. e : ts[j].role = "tool"
      BY <1>5, <3>2, <3>3
    <3> QED
      BY <1>2, <3>1, <3>4
  <2>2. d >= f
    <3>1. f \in i .. n /\ \A j \in (i + 1) .. f : j = f
      BY <1>1
    <3>2. \A j \in (i + 1) .. f : ts[j].role = "tool"
      BY <1>5, <3>1
    <3>3. f <= d
      BY <1>2, <3>1, <3>2
    <3> QED
      BY <1>1, <1>2, <3>3
  <2>3. d <= e
    <3>1. d \in f .. n /\ d \in i .. n
      BY <1>1, <1>2, <2>2
    <3>2. \A j \in (i + 1) .. d : ts[j].role = "tool"
      BY <1>2, <3>1
    <3>3. \A j \in (f + 1) .. d : j \in (i + 1) .. d
      BY <1>1, <3>1
    <3>4. \A j \in (f + 1) .. d : ts[j].role = "tool"
      BY <3>2, <3>3
    <3> QED
      BY <1>3, <3>1, <3>4
  <2> QED
    BY <1>1, <1>2, <1>3, <2>1, <2>3
<1> QED
  BY <1>4, <1>5 DEF d, e, f

(* In a sound transcript, the results of a reply are the turns behind it.  *)
LEMMA ResultsWhole ==
  ASSUME NEW ts, Sound(ts), NEW i \in 1 .. Len(ts), ts[i].role = "assistant"
  PROVE  LET rs == Results(ts, i)
         IN  /\ IsList(rs) /\ Len(rs) = RunEnd(ts, i) - i
             /\ \A p \in 1 .. Len(rs) : rs[p] = ts[i + p]
<1> DEFINE n    == Len(ts)
           e    == RunEnd(ts, i)
           got  == Answered(ts, i)
           cs   == ts[i].calls
           L    == {j \in DOMAIN cs : \A k \in got : ts[k].id # cs[j]}
           lost == Chosen(cs, L)
           mine == Chosen(ts, got)
<1>1. IsList(ts) /\ DOMAIN ts = 1 .. n /\ n \in Nat /\ IsList(cs)
  BY ListFacts DEF Turns, Sound
<1>2. /\ \A j \in 1 .. n : \A c \in Calls(ts[j]) : \E k \in 1 .. n : ts[k].id = c /\ Answers(ts, k, j)
      /\ \A k \in 1 .. n : ts[k].role = "tool" => Led(ts, k) \/ \E j \in 1 .. n : Answers(ts, k, j)
      /\ \A k, l \in 1 .. n : Apart(ts, k, l)
  BY <1>1, SoundFacts
<1>3. e \in i .. n /\ \A k \in i .. n : k <= e <=> \A j \in (i + 1) .. k : ts[j].role = "tool"
  BY <1>1, RunEndFacts
<1>4. Results(ts, i) = mine \o Made(lost)
  BY DEF Results, Made
<1>5. got = {k \in (i + 1) .. e : ts[k].id \in Calls(ts[i]) /\ \A l \in (i + 1) .. (k - 1) : ts[l].id # ts[k].id}
  BY DEF Answered
<1> HIDE DEF n, e, got
<1>6. \A k \in (i + 1) .. e : k \in 1 .. n /\ ts[k].role = "tool"
  <2>1. SUFFICES ASSUME NEW k \in (i + 1) .. e PROVE k \in 1 .. n /\ ts[k].role = "tool"
    OBVIOUS
  <2>2. i \in 1 .. n
    BY DEF n
  <2>3. k \in 1 .. n /\ k \in i .. n /\ k <= e /\ k \in (i + 1) .. k
    BY <1>1, <1>3, <2>2
  <2> QED
    BY <1>3, <2>3
<1>7. i \in 1 .. n /\ i \in Nat /\ e \in Nat /\ i <= e
  BY <1>1, <1>3 DEF n
<1>8. ASSUME NEW k \in (i + 1) .. e
      PROVE  ts[k].id \in Calls(ts[i])
  <2>1. ~Led(ts, k)
    <3>1. i \in 1 .. k
      BY <1>7
    <3> QED
      BY <3>1 DEF Led
  <2>2. PICK o \in 1 .. n : Answers(ts, k, o)
    BY <1>2, <1>6, <2>1
  <2>3. o < k /\ ts[o].role = "assistant" /\ ts[k].id \in Calls(ts[o]) /\ \A j \in (o + 1) .. k : ts[j].role = "tool"
    BY <2>2, AnswersFacts
  <2>4. ~(o \in (i + 1) .. e) /\ ~(i \in (o + 1) .. k)
    BY <1>6, <2>3
  <2>5. o = i
    BY <1>7, <2>3, <2>4
  <2> QED
    BY <2>3, <2>5
<1>9. ASSUME NEW k \in (i + 1) .. e, NEW l \in (i + 1) .. (k - 1)
      PROVE  ts[l].id # ts[k].id
  <2>1. l \in (i + 1) .. e /\ l < k /\ \A j \in l .. k : j \in (i + 1) .. e
    BY <1>7
  <2>2. \A j \in l .. k : ts[j].role = "tool"
    BY <1>6, <2>1
  <2>3. l \in 1 .. n /\ k \in 1 .. n
    BY <1>6, <2>1
  <2>4. Apart(ts, l, k)
    BY <1>2, <2>3
  <2> QED
    BY <2>1, <2>2, <2>4 DEF Apart
<1>10. got = (i + 1) .. e
  BY <1>5, <1>8, <1>9
<1>11. L = {}
  <2>1. SUFFICES ASSUME NEW j \in L PROVE FALSE
    OBVIOUS
  <2>2. j \in DOMAIN cs /\ cs[j] \in Calls(ts[i])
    BY DEF Calls, ToSet
  <2>3. PICK k \in 1 .. n : ts[k].id = cs[j] /\ Answers(ts, k, i)
    BY <1>2, <1>7, <2>2
  <2>4. i < k /\ \A q \in (i + 1) .. k : ts[q].role = "tool"
    BY <2>3, AnswersFacts
  <2>5. k \in i .. n
    BY <1>7, <2>4
  <2>6. k <= e
    BY <1>3, <2>4, <2>5
  <2>7. k \in got
    BY <1>7, <1>10, <2>4, <2>6
  <2> QED
    BY <2>3, <2>7
<1>12. Made(lost) = <<>>
  <2>1. IsList(Chosen(cs, {})) /\ Len(Chosen(cs, {})) = 0
    <3>1. {} \in SUBSET DOMAIN cs
      OBVIOUS
    <3> HIDE DEF cs
    <3>2. IsList(Chosen(cs, {})) /\ Len(Chosen(cs, {})) = Cardinality({})
      BY <1>1, <3>1, ChosenList
    <3> QED
      BY <3>2, FS_EmptySet
  <2>2. IsList(lost) /\ Len(lost) = 0
    BY <1>11, <2>1
  <2> HIDE DEF lost
  <2> DEFINE us == Made(lost)
  <2>3. Turns(us) /\ Len(us) = 0
    BY <2>2, MadeFacts
  <2> HIDE DEF us
  <2>4. us = <<>>
    BY <2>3, ListFacts DEF Turns
  <2> QED
    BY <2>4 DEF us
<1>13. IsList(mine) /\ Len(mine) = e - i /\ \A p \in 1 .. Len(mine) : mine[p] = ts[i + p]
  <2> DEFINE S == (i + 1) .. e
  <2>1. IsFiniteSet(S) /\ Cardinality(S) = e - i /\ \A p \in 1 .. e - i : InOrder(S)[p] = i + p
    BY <1>7, InOrderInterval
  <2>2. S \in SUBSET DOMAIN ts
    BY <1>1, <1>6
  <2>3. got = S
    BY <1>10
  <2> HIDE DEF S, mine
  <2>4. /\ IsList(mine) /\ Len(mine) = Cardinality(S)
        /\ \A p \in 1 .. Len(mine) : mine[p] = ts[InOrder(S)[p]]
    BY <1>1, <2>2, <2>3, ChosenList DEF mine
  <2> QED
    BY <2>1, <2>4
<1> HIDE DEF mine, lost
<1>14. mine \o <<>> = mine
  <2>1. mine \in Seq(ToSet(mine))
    BY <1>13 DEF IsList, ToSet
  <2> QED
    BY <2>1, ConcatEmptySeq
<1> QED
  BY <1>4, <1>12, <1>13, <1>14 DEF e

(* Healing changes nothing that is whole: it hides no result.              *)
LEMMA HealWhole ==
  ASSUME NEW ts, Sound(ts), Headed(ts)
  PROVE  HealToolPairing(ts) = ts
<1> DEFINE bs == Healed(ts)
           n == Len(ts)
           h == HealToolPairing(ts)
           E(i) == IF i = 1 THEN 0 ELSE RunEnd(ts, i - 1)
<1>1. h = FlattenSeq(bs)
  BY DEF HealToolPairing, Healed
<1>2. /\ IsList(bs) /\ bs # <<>> /\ Len(bs) = n
      /\ \A i \in 1 .. n :
              /\ Turns(bs[i])
              /\ ts[i].role = "assistant" => bs[i] = <<ts[i]>> \o Results(ts, i)
              /\ ts[i].role = "user" => bs[i] = <<ts[i]>>
              /\ ts[i].role \notin {"assistant", "user"} => bs[i] = <<>>
  BY HealedFacts DEF Headed, Sound
<1>3. IsList(ts) /\ n \in Nat \ {0} /\ ts[1].role = "user" /\ DOMAIN ts = 1 .. n
  BY ListFacts DEF Headed, Sound, Turns
<1> HIDE DEF bs, h, n
<1>4. \A i \in 1 .. n : IsList(bs[i]) /\ Len(bs[i]) \in Nat
  BY <1>2, ListFacts DEF Turns
<1>5. PICK at : Placed(bs, h, at)
  BY <1>1, <1>2, <1>4, FlattenPlaces
<1>6. /\ IsList(h) /\ at[1] = 0 /\ Len(h) = at[n + 1]
      /\ \A i \in 1 .. n : at[i] \in Nat /\ at[i + 1] = at[i] + Len(bs[i])
      /\ \A i \in 1 .. n : \A p \in 1 .. Len(bs[i]) : h[at[i] + p] = bs[i][p]
      /\ \A q \in 1 .. Len(h) : \E i \in 1 .. n : \E p \in 1 .. Len(bs[i]) : q = at[i] + p
  BY <1>2, <1>5 DEF Placed
<1>7. \A i \in 1 .. n : ts[i].role \in {"user", "assistant", "tool"}
  BY <1>3 DEF Sound, IsTurns
<1>8. \A i \in 1 .. n : RunEnd(ts, i) \in i .. n
  BY <1>3, RunEndFacts DEF n
<1>9. ASSUME NEW i \in 1 .. n, ts[i].role # "tool"
      PROVE  E(i) = i - 1
  <2>1. CASE i = 1
    BY <2>1
  <2>2. CASE i # 1
    <3> DEFINE g == i - 1
    <3>1. g \in 1 .. n /\ g + 1 = i
      BY <1>3, <2>2
    <3> HIDE DEF g
    <3>2. g + 1 \in 1 .. n /\ ts[g + 1].role # "tool"
      BY <1>9, <3>1
    <3>3. RunEnd(ts, g) = g
      BY <1>3, <3>1, <3>2, RunEndNext DEF n
    <3> QED
      BY <2>2, <3>3 DEF g
  <2> QED
    BY <2>1, <2>2
<1>10. ASSUME NEW i \in 1 .. n, ts[i].role = "assistant"
       PROVE  Len(bs[i]) = 1 + RunEnd(ts, i) - i /\ \A p \in 1 .. Len(bs[i]) : bs[i][p] = ts[i - 1 + p]
  <2> DEFINE one == <<ts[i]>>
             rs == Results(ts, i)
             b == one \o rs
             e == RunEnd(ts, i)
  <2>1. IsList(one) /\ Len(one) = 1 /\ one[1] = ts[i]
    BY ListOne
  <2>2. IsList(rs) /\ Len(rs) = e - i /\ \A p \in 1 .. Len(rs) : rs[p] = ts[i + p]
    BY <1>10, ResultsWhole DEF n
  <2>3. bs[i] = b
    BY <1>2, <1>10
  <2>4. e \in i .. n
    BY <1>8
  <2> HIDE DEF one, rs, e
  <2>5. /\ Len(b) = Len(one) + Len(rs)
        /\ \A p \in 1 .. Len(one) + Len(rs) : b[p] = IF p <= Len(one) THEN one[p] ELSE rs[p - Len(one)]
    BY <2>1, <2>2, ListConcat
  <2> HIDE DEF b
  <2>6. Len(b) = 1 + e - i
    BY <2>1, <2>2, <2>4, <2>5
  <2>7. ASSUME NEW p \in 1 .. Len(b)
        PROVE  b[p] = ts[i - 1 + p]
    <3>1. CASE p = 1
      <4>1. i - 1 + p = i /\ p \in 1 .. Len(one) + Len(rs) /\ p <= Len(one)
        BY <2>1, <2>2, <2>4, <3>1
      <4> QED
        BY <2>1, <2>5, <3>1, <4>1
    <3>2. CASE p # 1
      <4>1. /\ p \in 1 .. Len(one) + Len(rs) /\ ~(p <= Len(one)) /\ p - Len(one) \in 1 .. Len(rs)
            /\ i + (p - Len(one)) = i - 1 + p
        BY <2>1, <2>2, <2>4, <2>6, <3>2
      <4> QED
        BY <2>2, <2>5, <4>1
    <3> QED
      BY <3>1, <3>2
  <2> QED
    BY <2>3, <2>6, <2>7 DEF e
<1>11. ASSUME NEW i \in 1 .. n, ts[i].role = "user"
       PROVE  Len(bs[i]) = 1 /\ bs[i][1] = ts[i] /\ RunEnd(ts, i) = i
  <2>1. Len(bs[i]) = 1 /\ bs[i][1] = ts[i]
    BY <1>2, <1>11, ListOne
  <2>2. CASE i = n
    <3> DEFINE e == RunEnd(ts, i)
    <3>1. e \in n .. n
      BY <1>8, <2>2
    <3> HIDE DEF e
    <3>2. e = n
      BY <1>3, <3>1
    <3> QED
      BY <2>1, <2>2, <3>2 DEF e
  <2>3. CASE i # n
    <3> DEFINE f == i + 1
    <3>1. f \in 1 .. n /\ f = i + 1
      BY <1>3, <2>3
    <3> HIDE DEF f
    <3>2. ts[f].role # "tool"
      <4>1. SUFFICES ASSUME ts[f].role = "tool" PROVE FALSE
        OBVIOUS
      <4>2. ~Led(ts, f)
        <5>1. 1 \in 1 .. f
          BY <3>1
        <5> QED
          BY <1>3, <5>1 DEF Led
      <4>3. PICK o \in 1 .. n : Answers(ts, f, o)
        BY <1>3, <3>1, <4>1, <4>2, SoundFacts DEF n
      <4>4. o < f /\ ts[o].role = "assistant" /\ \A j \in (o + 1) .. f : ts[j].role = "tool"
        BY <4>3, AnswersFacts
      <4>5. i \in (o + 1) .. f \/ i = o
        BY <3>1, <4>4
      <4> QED
        BY <1>11, <4>4, <4>5
    <3>3. RunEnd(ts, i) = i
      BY <1>3, <3>1, <3>2, RunEndNext DEF n
    <3> QED
      BY <2>1, <3>3
  <2> QED
    BY <2>1, <2>2, <2>3
<1>12. ASSUME NEW i \in 1 .. n, at[i] = E(i)
       PROVE  at[i + 1] = E(i + 1)
  <2>1. i + 1 # 1 /\ (i + 1) - 1 = i
    OBVIOUS
  <2>2. E(i + 1) = RunEnd(ts, i)
    BY <2>1
  <2>3. CASE ts[i].role = "user"
    <3>1. at[i] = i - 1 /\ Len(bs[i]) = 1 /\ RunEnd(ts, i) = i
      BY <1>9, <1>11, <1>12, <2>3
    <3>2. at[i + 1] = at[i] + Len(bs[i])
      BY <1>6
    <3> QED
      BY <2>2, <3>1, <3>2
  <2>4. CASE ts[i].role = "assistant"
    <3>1. at[i] = i - 1 /\ Len(bs[i]) = 1 + RunEnd(ts, i) - i /\ RunEnd(ts, i) \in i .. n
      BY <1>8, <1>9, <1>10, <1>12, <2>4
    <3>2. at[i + 1] = at[i] + Len(bs[i])
      BY <1>6
    <3> HIDE DEF E
    <3> QED
      BY <1>3, <2>2, <3>1, <3>2
  <2>5. CASE ts[i].role = "tool"
    <3> DEFINE g == i - 1
    <3>1. i # 1
      BY <1>3, <2>5
    <3>2. g \in 1 .. n /\ g + 1 = i /\ E(i) = RunEnd(ts, g)
      BY <1>3, <3>1
    <3> HIDE DEF g, E
    <3>3. g + 1 \in 1 .. n /\ ts[g + 1].role = "tool"
      BY <2>5, <3>2
    <3>4. RunEnd(ts, g + 1) = RunEnd(ts, g)
      BY <1>3, <3>2, <3>3, RunEndNext DEF n
    <3>5. Len(bs[i]) = 0
      <4>1. bs[i] = <<>>
        BY <1>2, <2>5
      <4> QED
        BY <4>1
    <3>6. at[i + 1] = at[i] /\ at[i] \in Nat
      BY <1>6, <3>5
    <3> QED
      BY <1>12, <2>2, <3>2, <3>4, <3>6
  <2> QED
    BY <1>7, <2>3, <2>4, <2>5
<1>13. \A i \in 1 .. n + 1 : at[i] = E(i)
  <2> DEFINE Bad == {i \in 1 .. n + 1 : at[i] # E(i)}
  <2>1. SUFFICES ASSUME Bad # {} PROVE FALSE
    OBVIOUS
  <2>2. Bad \in SUBSET Nat
    BY <1>3
  <2>3. E(1) = 0
    OBVIOUS
  <2> HIDE DEF E
  <2>4. PICK i \in Bad : \A j \in Bad : i <= j
    <3> HIDE DEF Bad
    <3> QED
      BY <2>1, <2>2, LeastNumber
  <2> DEFINE g == i - 1
  <2>5. i # 1
    BY <1>6, <2>3, <2>4
  <2>6. g \in 1 .. n /\ g + 1 = i /\ g \in 1 .. n + 1 /\ ~(i <= g)
    BY <1>3, <2>4, <2>5
  <2> HIDE DEF g
  <2>7. at[g] = E(g)
    BY <2>4, <2>6
  <2>8. at[g + 1] = E(g + 1)
    BY <1>12, <2>6, <2>7
  <2> QED
    BY <2>4, <2>6, <2>8
<1>14. Len(h) = n
  <2>1. n + 1 \in 1 .. n + 1 /\ (n + 1) - 1 = n /\ n + 1 # 1 /\ n \in 1 .. n
    BY <1>3
  <2>2. at[n + 1] = RunEnd(ts, n)
    BY <1>13, <2>1
  <2>3. RunEnd(ts, n) \in n .. n
    BY <1>8, <2>1
  <2> QED
    BY <1>3, <1>6, <2>2, <2>3
<1>15. ASSUME NEW q \in 1 .. n
       PROVE  h[q] = ts[q]
  <2>1. PICK i \in 1 .. n : \E p \in 1 .. Len(bs[i]) : q = at[i] + p
    BY <1>6, <1>14
  <2>2. PICK p \in 1 .. Len(bs[i]) : q = at[i] + p
    BY <2>1
  <2>3. h[q] = bs[i][p]
    BY <1>6, <2>2
  <2>4. ts[i].role # "tool"
    <3>1. SUFFICES ASSUME ts[i].role = "tool" PROVE FALSE
      OBVIOUS
    <3>2. bs[i] = <<>>
      BY <1>2, <3>1
    <3>3. p \in 1 .. 0
      BY <3>2
    <3> QED
      BY <3>3
  <2>5. at[i] = i - 1
    <3>1. i \in 1 .. n + 1
      BY <1>3
    <3> HIDE DEF E
    <3> QED
      BY <1>9, <1>13, <2>4, <3>1
  <2>6. CASE ts[i].role = "user"
    <3>1. Len(bs[i]) = 1 /\ bs[i][1] = ts[i]
      BY <1>11, <2>6
    <3>2. p \in 1 .. 1
      BY <3>1
    <3>3. p = 1 /\ q = i
      BY <2>2, <2>5, <3>2
    <3> QED
      BY <2>3, <3>1, <3>3
  <2>7. CASE ts[i].role = "assistant"
    <3>1. bs[i][p] = ts[i - 1 + p]
      BY <1>10, <2>7
    <3> QED
      BY <2>2, <2>3, <2>5, <3>1
  <2> QED
    BY <1>7, <2>4, <2>6, <2>7
<1>16. h = [q \in 1 .. n |-> h[q]] /\ ts = [q \in 1 .. n |-> ts[q]]
  BY <1>3, <1>6, <1>14, ListFacts DEF n
<1> QED
  BY <1>15, <1>16 DEF h

-----------------------------------------------------------------------------
(* Notes about the model. *)

(* A transcript with a note behind some of its turns.                      *)
Notes(c, D) == [i \in DOMAIN c |-> IF i \in D THEN <<c[i], Note>> ELSE <<c[i]>>]
Noted(c, D) == FlattenSeq(Notes(c, D))

(* The notes of another model are such notes.                              *)
LEMMA NotedModel ==
  ASSUME NEW c
  PROVE  \E D : WithModelNotes(c) = Noted(c, D)
<1> DEFINE D == {i \in DOMAIN c : c[i].role = "assistant" /\ NextWriter(c, i) # c[i].by}
<1>1. Notes(c, D) = [i \in DOMAIN c |->
        IF c[i].role = "assistant" /\ NextWriter(c, i) # c[i].by THEN <<c[i], Note>> ELSE <<c[i]>>]
  BY DEF Notes
<1>2. WithModelNotes(c) = Noted(c, D)
  BY <1>1 DEF WithModelNotes, Noted
<1> QED
  BY <1>2

(* The notes are turns of the user; without one nothing has changed.       *)
LEMMA NotedFacts ==
  ASSUME NEW c, Turns(c), IsTurns(c), Headed(c), NEW D
  PROVE  LET s == Noted(c, D)
         IN  Turns(s) /\ IsTurns(s) /\ Headed(s) /\ (Len(s) = Len(c) => s = c)
<1> DEFINE bs == Notes(c, D)
           n == Len(c)
           s == Noted(c, D)
<1>1. n \in Nat \ {0} /\ DOMAIN c = 1 .. n /\ IsList(c) /\ c[1].role = "user"
  BY ListFacts DEF Turns, Headed
<1>2. bs = [i \in 1 .. n |-> bs[i]] /\ \A i \in 1 .. n : bs[i] = IF i \in D THEN <<c[i], Note>> ELSE <<c[i]>>
  BY <1>1 DEF Notes
<1>3. s = FlattenSeq(bs)
  BY DEF Noted
<1> HIDE DEF bs, s, n
<1>4. IsList(bs) /\ Len(bs) = n
  BY <1>1, <1>2, ListIntro
<1>5. bs # <<>>
  BY <1>1, <1>4, ListFacts
<1>6. ASSUME NEW i \in 1 .. n
      PROVE  /\ IsList(bs[i]) /\ Len(bs[i]) \in {1, 2} /\ bs[i][1] = c[i]
             /\ Len(bs[i]) = 2 => bs[i][2] = Note
  <2>1. CASE i \in D
    <3>1. bs[i] = <<c[i], Note>>
      BY <1>2, <2>1
    <3> QED
      BY <3>1, ListTwo
  <2>2. CASE i \notin D
    <3>1. bs[i] = <<c[i]>>
      BY <1>2, <2>2
    <3>2. IsList(bs[i]) /\ Len(bs[i]) = 1 /\ bs[i][1] = c[i]
      BY <3>1, ListOne
    <3> QED
      BY <3>2
  <2> QED
    BY <2>1, <2>2
<1>20. ASSUME NEW i \in 1 .. n
       PROVE  1 \in 1 .. Len(bs[i]) /\ \A p \in 1 .. Len(bs[i]) : p = 1 \/ (p = 2 /\ Len(bs[i]) = 2)
  <2> DEFINE l == Len(bs[i])
  <2>1. l = 1 \/ l = 2
    BY <1>6
  <2> HIDE DEF l
  <2>2. 1 \in 1 .. l /\ \A p \in 1 .. l : p = 1 \/ (p = 2 /\ l = 2)
    BY <2>1
  <2> QED
    BY <2>2 DEF l
<1>7. PICK at : Placed(bs, s, at)
  BY <1>3, <1>4, <1>5, <1>6, FlattenPlaces
<1>8. /\ IsList(s) /\ at[1] = 0 /\ Len(s) = at[n + 1]
      /\ \A i \in 1 .. n : at[i] \in Nat /\ at[i + 1] = at[i] + Len(bs[i])
      /\ \A i \in 1 .. n : \A p \in 1 .. Len(bs[i]) : at[i] + p \in 1 .. Len(s) /\ s[at[i] + p] = bs[i][p]
      /\ \A q \in 1 .. Len(s) : \E i \in 1 .. n : \E p \in 1 .. Len(bs[i]) : q = at[i] + p
  BY <1>4, <1>7 DEF Placed
<1>9. ASSUME NEW q \in 1 .. Len(s)
      PROVE  s[q] = Note \/ \E i \in 1 .. n : s[q] = c[i]
  <2>1. PICK i \in 1 .. n : \E p \in 1 .. Len(bs[i]) : q = at[i] + p
    BY <1>8
  <2>2. PICK p \in 1 .. Len(bs[i]) : q = at[i] + p
    BY <2>1
  <2>3. s[q] = bs[i][p]
    BY <1>8, <2>2
  <2>4. p = 1 \/ (p = 2 /\ Len(bs[i]) = 2)
    BY <1>20, <2>2
  <2> QED
    BY <1>6, <2>3, <2>4
<1>10. WellFormed(Note) /\ IsList(Note.calls)
  <2>1. Note.calls = <<>> /\ WellFormed(Note)
    BY Written DEF Note
  <2> QED
    BY <2>1 DEF IsList, ToSet
<1>11. \A i \in 1 .. n : WellFormed(c[i]) /\ IsList(c[i].calls)
  BY <1>1 DEF Turns, IsTurns, WellFormed
<1>12. \A q \in 1 .. Len(s) : WellFormed(s[q]) /\ IsList(s[q].calls)
  BY <1>9, <1>10, <1>11
<1>13. DOMAIN s = 1 .. Len(s)
  BY <1>8, ListFacts
<1>14. Turns(s) /\ IsTurns(s)
  BY <1>8, <1>12, <1>13 DEF Turns, IsTurns, WellFormed
<1>15. Headed(s)
  <2>1. 1 \in 1 .. n /\ 1 \in 1 .. Len(bs[1]) /\ at[1] + 1 = 1
    BY <1>1, <1>8, <1>20
  <2>2. 1 \in 1 .. Len(s) /\ s[1] = c[1]
    <3>1. at[1] + 1 \in 1 .. Len(s) /\ s[at[1] + 1] = bs[1][1]
      BY <1>8, <2>1
    <3> QED
      BY <1>6, <2>1, <3>1
  <2>3. s # <<>>
    BY <1>8, <2>2, ListFacts
  <2> QED
    BY <1>1, <2>2, <2>3 DEF Headed
<1> DEFINE Even(i) == at[i] \in Nat /\ at[i] >= i - 1 /\ (at[i] = i - 1 => \A k \in 1 .. i - 1 : at[k] = k - 1 /\ Len(bs[k]) = 1)
           Bad == {i \in 1 .. n + 1 : ~Even(i)}
<1>16. Even(1)
  BY <1>8
<1>17. ASSUME NEW i \in 1 .. n, Even(i)
       PROVE  Even(i + 1)
  <2> DEFINE a == at[i]
             l == Len(bs[i])
             b == at[i + 1]
  <2>1. /\ a \in Nat /\ a >= i - 1 /\ b = a + l /\ l \in {1, 2}
        /\ a = i - 1 => \A k \in 1 .. i - 1 : at[k] = k - 1 /\ Len(bs[k]) = 1
    BY <1>6, <1>8, <1>17
  <2>2. /\ b \in Nat /\ b >= (i + 1) - 1 /\ (b = (i + 1) - 1 => a = i - 1 /\ l = 1)
        /\ \A k \in 1 .. (i + 1) - 1 : k \in 1 .. i - 1 \/ k = i
    <3> HIDE DEF a, b, l
    <3> QED
      BY <1>1, <2>1
  <2>3. ASSUME b = (i + 1) - 1, NEW k \in 1 .. (i + 1) - 1
        PROVE  at[k] = k - 1 /\ Len(bs[k]) = 1
    <3>1. a = i - 1 /\ l = 1
      BY <2>2, <2>3
    <3>2. CASE k = i
      BY <3>1, <3>2
    <3>3. CASE k \in 1 .. i - 1
      BY <2>1, <3>1, <3>3
    <3> QED
      BY <2>2, <2>3, <3>2, <3>3
  <2> QED
    BY <2>2, <2>3
<1> HIDE DEF Even
<1>18. Bad = {}
  <2>1. SUFFICES ASSUME Bad # {} PROVE FALSE
    OBVIOUS
  <2>2. Bad \in SUBSET Nat
    BY <1>1
  <2>3. PICK i \in Bad : \A j \in Bad : i <= j
    <3> HIDE DEF Bad
    <3> QED
      BY <2>1, <2>2, LeastNumber
  <2> DEFINE g == i - 1
  <2>4. i # 1
    BY <1>16, <2>3
  <2>5. g \in 1 .. n /\ g + 1 = i /\ g \in 1 .. n + 1 /\ ~(i <= g)
    BY <1>1, <2>3, <2>4
  <2> HIDE DEF g
  <2>6. Even(g)
    BY <2>3, <2>5
  <2>7. Even(g + 1)
    BY <1>17, <2>5, <2>6
  <2> QED
    BY <2>3, <2>5, <2>7
<1>19. ASSUME Len(s) = n
       PROVE  s = c
  <2>1. n + 1 \in 1 .. n + 1 /\ (n + 1) - 1 = n
    BY <1>1
  <2>2. Even(n + 1)
    BY <1>18, <2>1
  <2>3. \A k \in 1 .. n : at[k] = k - 1 /\ Len(bs[k]) = 1
    BY <1>8, <1>19, <2>1, <2>2 DEF Even
  <2>4. ASSUME NEW k \in 1 .. n
        PROVE  s[k] = c[k]
    <3>1. 1 \in 1 .. Len(bs[k]) /\ at[k] + 1 = k
      BY <2>3
    <3>2. s[at[k] + 1] = bs[k][1]
      BY <1>8, <3>1
    <3> QED
      BY <1>6, <3>1, <3>2
  <2>5. s = [k \in 1 .. n |-> s[k]] /\ c = [k \in 1 .. n |-> c[k]]
    BY <1>1, <1>8, <1>19, ListFacts DEF n
  <2> QED
    BY <2>4, <2>5
<1> QED
  BY <1>14, <1>15, <1>19 DEF s, n

(* The request of a run whose conversation is whole.                       *)
LEMMA RequestFacts ==
  ASSUME NEW c, Sound(c), Headed(c), NEW D
  PROVE  LET s == Noted(c, D)
         IN  /\ IsTurns(s) /\ Accepted(Messages(OnWire(s)))
             /\ Len(s) = Len(c) => Real(OnWire(s)) = Real(c)
<1> DEFINE s == Noted(c, D)
           w == HealConversationHead(s)
<1>1. Turns(s) /\ IsTurns(s) /\ Headed(s) /\ (Len(s) = Len(c) => s = c)
  BY NotedFacts DEF Sound
<1> HIDE DEF s
<1>2. Turns(w) /\ Headed(w)
  <2>1. 1 \in 1 .. Len(s) /\ s[1].role = "user"
    <3>1. s # <<>> /\ IsList(s)
      BY <1>1 DEF Headed, Turns
    <3>2. Len(s) \in Nat \ {0}
      BY <3>1, ListFacts
    <3> QED
      BY <1>1, <3>2 DEF Headed
  <2> QED
    BY <1>1, <2>1, HealTurns
<1> HIDE DEF w
<1> DEFINE h == HealToolPairing(w)
<1>3. IsList(h) /\ Headed(h) /\ Matched(h)
  BY <1>2, HealMatched
<1>4. OnWire(s) = h
  BY DEF OnWire, w
<1> HIDE DEF h
<1>5. Accepted(Messages(h))
  BY <1>3, MessagesAccepted
<1>6. ASSUME s = c PROVE OnWire(s) = c
  <2>1. HealConversationHead(c) = c
    BY HealSound
  <2>2. HealToolPairing(c) = c
    BY HealWhole
  <2> QED
    BY <1>6, <2>1, <2>2 DEF OnWire
<1> QED
  BY <1>1, <1>4, <1>5, <1>6 DEF s

-----------------------------------------------------------------------------
(* The steps keep conversations whole. *)

(* What is stored is sound and bounded, a run has a sound conversation     *)
(* that opens with the user, and a request is that conversation with       *)
(* notes.                                                                  *)
Data ==
    /\ Stored(turns) /\ Stored(kv.turns)
    /\ Sound(conv) /\ (conv = <<>> \/ Headed(conv)) /\ (running => Headed(conv))
    /\ sent # <<>> => running /\ \E D : sent = Noted(conv, D)

(* The flags and the counters.                                             *)
Counters ==
    /\ recent \in BOOLEAN /\ up \in BOOLEAN /\ running \in BOOLEAN /\ clean \in BOOLEAN
    /\ iteration \in 0 .. MaxIter /\ queued \in 0 .. MaxTasks /\ task \in 0 .. MaxTasks

(* The inductive invariant.                                                *)
Conserved == Kept /\ Data /\ Counters /\ Stored(offered)

(* This is what the runs check.                                            *)
LEMMA ConservedWhole == Conserved => ConversationWhole
<1> SUFFICES ASSUME Conserved PROVE ConversationWhole
  OBVIOUS
<1>1. /\ Stored(turns) /\ Stored(kv.turns) /\ Sound(conv) /\ (conv = <<>> \/ Headed(conv))
      /\ (running => Headed(conv)) /\ (sent # <<>> => running /\ \E D : sent = Noted(conv, D))
  BY DEF Conserved, Data
<1>2. ASSUME sent # <<>>
      PROVE  /\ IsTurns(sent) /\ Accepted(Messages(OnWire(sent)))
             /\ Len(sent) = Len(conv) => Real(OnWire(sent)) = Real(conv)
  <2>1. PICK D : sent = Noted(conv, D)
    BY <1>1, <1>2
  <2>2. Headed(conv)
    BY <1>1, <1>2
  <2> QED
    BY <1>1, <2>1, <2>2, RequestFacts
<1>3. IsTurns(sent)
  <2>1. IsTurns(<<>>)
    BY DEF IsTurns
  <2> QED
    BY <1>2, <2>1
<1>4. TypeOK
  <2>1. running => conv # <<>>
    BY <1>1 DEF Headed
  <2>2. IsTurns(turns) /\ IsTurns(conv) /\ IsTurns(kv.turns) /\ Len(turns) <= Hard /\ IsTurns(offered)
    BY <1>1 DEF Stored, Sound, Conserved
  <2>3. {paused, recent, up, running, clean, kv.paused} \subseteq BOOLEAN
    BY DEF Conserved, Kept, Shape, Counters
  <2> QED
    BY <1>3, <2>1, <2>2, <2>3 DEF TypeOK, Conserved, Counters
<1>5. StoredPaired
  <2>1. HasUser(turns) => Unpaired(turns) = {}
    BY <1>1, HeadedFull, UnpairedFull DEF Stored
  <2>2. Unpaired(conv) = {}
    BY <1>1, FullNone, HeadedFull, UnpairedFull
  <2> QED
    BY <2>1, <2>2 DEF StoredPaired
<1>6. RequestAccepted /\ ResultsSent
  BY <1>2 DEF RequestAccepted, ResultsSent, Waiting
<1> QED
  BY <1>4, <1>5, <1>6 DEF ConversationWhole

(* A run that starts.                                                      *)
LEMMA StartData ==
  ASSUME Data, NEW ts, Sound(ts), NEW b, StartPrompt(ts, User(b)), kv' = kv
  PROVE  Data'
<1> DEFINE c == Bound(Append(ts, User(b)))
<1>1. turns' = c /\ conv' = c /\ running' = TRUE /\ sent' = <<>>
  BY DEF StartPrompt
<1>2. Stored(c) /\ Headed(c)
  BY StartSound
<1> HIDE DEF c
<1>3. Stored(turns') /\ Sound(conv') /\ Headed(conv') /\ Stored(kv'.turns)
  BY <1>1, <1>2 DEF Data, Stored
<1> QED
  BY <1>1, <1>3 DEF Data

(* A run that ends, or a session that is replaced.                         *)
LEMMA EndData ==
  ASSUME Data, conv' = <<>>, running' = FALSE, sent' = <<>>, Stored(turns'), Stored(kv'.turns)
  PROVE  Data'
<1>1. Sound(<<>>)
  BY FullNone DEF Full
<1>2. Sound(conv')
  BY <1>1
<1> QED
  BY <1>2 DEF Data

(* The end of a run: what it stores is bounded, and the next prompt starts *)
(* from that.                                                              *)
LEMMA FinishData ==
  ASSUME Data, NEW c, NEW interrupted \in BOOLEAN, Finish(c, interrupted),
         Sound(IF interrupted THEN CloseDanglingToolCalls(c) ELSE c)
  PROVE  Data'
<1> DEFINE d == IF interrupted THEN CloseDanglingToolCalls(c) ELSE c
           ts == Bound(d)
<1>1. Stored(ts)
  BY BoundSound
<1>2. IF queued # 0
        THEN StartPrompt(ts, User(queued)) /\ kv' = kv
        ELSE /\ turns' = ts /\ PersistPause(ts, interrupted)
             /\ conv' = <<>> /\ running' = FALSE /\ sent' = <<>>
  BY DEF Finish
<1> HIDE DEF ts
<1>3. CASE queued # 0
  BY <1>1, <1>2, <1>3, StartData DEF Stored
<1>4. CASE queued = 0
  <2>1. kv' = [turns |-> ts, paused |-> interrupted] \/ kv' = kv
    BY <1>2, <1>4 DEF PersistPause, Persist
  <2>2. kv'.turns = ts \/ kv'.turns = kv.turns
    BY <2>1
  <2>3. Stored(kv'.turns) /\ Stored(turns')
    BY <1>1, <1>2, <1>4, <2>2 DEF Data
  <2> QED
    BY <1>2, <1>4, <2>3, EndData
<1> QED
  BY <1>3, <1>4

(* A run whose conversation grows.                                         *)
LEMMA GrowData ==
  ASSUME Data, NEW c, Sound(c), Headed(c), Grow(c)
  PROVE  Data'
<1>1. conv' = c /\ sent' = <<>> /\ turns' = turns /\ kv' = kv /\ running' = running
  BY DEF Grow, session
<1>2. Stored(turns') /\ Stored(kv'.turns) /\ Sound(conv') /\ Headed(conv')
  BY <1>1 DEF Data
<1> QED
  BY <1>1, <1>2 DEF Data

(* The steps of a run.                                                     *)
LEMMA LoopData ==
  ASSUME Data, Kept,
         \/ Send \/ ReplyText \/ ReplyTruncated \/ ReplyError \/ Stop
         \/ \E cs \in CallLists : ReplyTools(cs) \/ ReplyQuestion(cs)
         \/ \E cs \in CallLists : \E n \in 1 .. Len(cs) : ReplyToolsCancelled(cs, n)
  PROVE  Data'
<1>1. Sound(conv) /\ (running => Headed(conv)) /\ Turns(conv)
  BY DEF Data, Sound
<1>2. \A c \in Texts : Sound(c) /\ (Headed(conv) => Headed(c))
  <2> DEFINE t == Assistant(<<>>)
  <2>1. Texts = {conv, Append(conv, t)}
    BY DEF Texts
  <2>2. WellFormed(t) /\ t.role = "assistant" /\ t.calls = <<>>
    BY Written
  <2>3. IsList(<<>>)
    BY DEF IsList, ToSet
  <2> HIDE DEF t
  <2>4. Sound(Append(conv, t))
    BY <1>1, <2>2, SoundAppend
  <2>5. Headed(conv) => Headed(Append(conv, t))
    BY <1>1, <2>2, <2>3, AppendTurns
  <2> QED
    BY <1>1, <2>1, <2>4, <2>5
<1>3. \A cs \in CallLists : Len(cs) \in Nat
  BY CallsAssumption, ListFacts
<1>4. CASE Send
  <2>1. PICK c \in {conv, Compacted(conv)} : conv' = c /\ sent' = WithModelNotes(c)
    BY <1>4 DEF Send
  <2>2. running /\ running' = running /\ turns' = turns /\ kv' = kv
    BY <1>4 DEF Send, session
  <2>3. Sound(c) /\ Headed(c)
    BY <1>1, <2>1, <2>2, CompactSound, CompactTurns
  <2>4. PICK D : WithModelNotes(c) = Noted(c, D)
    BY NotedModel
  <2>5. Sound(conv') /\ Headed(conv') /\ Stored(turns') /\ Stored(kv'.turns)
    BY <2>1, <2>2, <2>3 DEF Data
  <2>6. sent' = Noted(c, D)
    BY <2>1, <2>4
  <2>7. sent' = Noted(conv', D)
    BY <2>1, <2>6
  <2>8. \E E : sent' = Noted(conv', E)
    BY <2>7
  <2> QED
    BY <2>2, <2>5, <2>8 DEF Data
<1>5. CASE ReplyText
  BY <1>2, <1>5, FinishData DEF ReplyText
<1>6. CASE ReplyTruncated
  BY <1>1, <1>2, <1>6, GrowData DEF ReplyTruncated, Waiting
<1>7. CASE ReplyError
  BY <1>1, <1>7, FinishData DEF ReplyError
<1>8. CASE Stop
  <2>1. CloseDanglingToolCalls(conv) = conv
    BY <1>1, SoundClosed
  <2> QED
    BY <1>1, <1>8, <2>1, FinishData DEF Stop
<1>9. ASSUME NEW cs \in CallLists, ReplyTools(cs)
      PROVE  Data'
  <2> DEFINE r == Append(conv, Assistant(cs)) \o Ran(cs, Len(cs))
  <2>1. Len(cs) \in 0 .. Len(cs) /\ Len(cs) \in Nat
    BY <1>3
  <2>2. Sound(r)
    BY <1>1, <2>1, CalledSound
  <2>3. Headed(conv) => Headed(r)
    BY <1>1, <2>1, CalledTurns
  <2>4. running /\ Grow(r)
    BY <1>9 DEF ReplyTools, Waiting
  <2> HIDE DEF r
  <2> QED
    BY <1>1, <2>2, <2>3, <2>4, GrowData
<1>10. ASSUME NEW cs \in CallLists, ReplyQuestion(cs)
       PROVE  Data'
  <2> DEFINE r == Append(conv, Assistant(cs)) \o Ran(cs, Len(cs))
  <2>1. Len(cs) \in 0 .. Len(cs)
    BY <1>3
  <2>2. Sound(CloseDanglingToolCalls(r))
    BY <1>1, <2>1, CalledSound
  <2>3. Finish(r, TRUE)
    BY <1>10 DEF ReplyQuestion
  <2> HIDE DEF r
  <2> QED
    BY <2>2, <2>3, FinishData
<1>11. ASSUME NEW cs \in CallLists, NEW n \in 1 .. Len(cs), ReplyToolsCancelled(cs, n)
       PROVE  Data'
  <2> DEFINE r == Append(conv, Assistant(cs)) \o Ran(cs, n)
  <2>1. n \in 0 .. Len(cs)
    BY <1>3
  <2>2. Sound(CloseDanglingToolCalls(r))
    BY <1>1, <2>1, CalledSound
  <2>3. Finish(r, TRUE)
    BY <1>11 DEF ReplyToolsCancelled
  <2> HIDE DEF r
  <2> QED
    BY <2>2, <2>3, FinishData
<1> QED
  BY <1>4, <1>5, <1>6, <1>7, <1>8, <1>9, <1>10, <1>11

(* Every step.                                                             *)
LEMMA DataStep ==
  ASSUME Data, Kept, Stored(offered), [Next]_vars
  PROVE  Data'
<1>1. Stored(turns) /\ Stored(kv.turns) /\ Sound(turns)
  BY DEF Data, Stored
<1>2. CASE Prompt
  <2>1. StartPrompt(turns, User(task + 1)) /\ kv' = kv
    BY <1>2 DEF Prompt
  <2> QED
    BY <1>1, <2>1, StartData
<1>3. CASE Continue
  <2>1. StartPrompt(turns, User(0)) /\ kv' = kv
    BY <1>3 DEF Continue, Note
  <2> QED
    BY <1>1, <2>1, StartData
<1>4. CASE Queue \/ TimePasses \/ (\E m \in Models : Select(m)) \/ ReadStore \/ UNCHANGED vars
  <2>1. UNCHANGED <<turns, kv, conv, running, sent>>
    BY <1>4 DEF Queue, TimePasses, Select, ReadStore, vars, own, session, run
  <2> QED
    BY <2>1 DEF Data, Stored, Sound, Headed, HasUser
<1>5. ASSUME NEW ts \in ForkTurns, NEW p \in BOOLEAN, SessionMemoryReplace(ts, p)
      PROVE  Data'
  <2>1. /\ turns' = Bound(ts) /\ kv' = [turns |-> Bound(ts), paused |-> p]
        /\ conv' = <<>> /\ running' = FALSE /\ sent' = <<>>
    BY <1>5 DEF SessionMemoryReplace, Persist
  <2>2. Sound(ts)
    BY ForksAssumption DEF Sound, Turns
  <2>3. Stored(Bound(ts))
    BY <2>2, BoundSound
  <2>4. kv'.turns = Bound(ts)
    BY <2>1
  <2>5. Stored(turns') /\ Stored(kv'.turns)
    BY <2>1, <2>3, <2>4
  <2> QED
    BY <2>1, <2>5, EndData
<1>6. CASE RestoreConversation \/ Restore
  <2>1. turns' \in {kv.turns, offered, turns} /\ UNCHANGED <<kv, conv, running, sent>>
    BY <1>6 DEF RestoreConversation, Restore, run
  <2>2. Stored(turns') /\ Stored(kv'.turns)
    BY <1>1, <2>1
  <2> QED
    BY <2>1, <2>2 DEF Data, Stored, Sound, Headed, HasUser
<1>7. CASE Stopping \/ Crash
  <2>1. turns' = <<>> /\ conv' = <<>> /\ running' = FALSE /\ sent' = <<>>
    BY <1>7 DEF Stopping, Crash, Halt
  <2>2. kv' = [turns |-> turns, paused |-> paused] \/ kv' = kv
    BY <1>7 DEF Stopping, Crash
  <2>3. kv'.turns = turns \/ kv'.turns = kv.turns
    BY <2>2
  <2>4. Stored(turns') /\ Stored(kv'.turns)
    BY <1>1, <2>1, <2>3, StoredNone
  <2> QED
    BY <2>1, <2>4, EndData
<1> QED
  BY <1>2, <1>3, <1>4, <1>5, <1>6, <1>7, LoopData DEF Next, Act

(* Flags and counters.                                                     *)
LEMMA StartCounters ==
  ASSUME Counters, NEW ts, NEW t, StartPrompt(ts, t), task' \in 0 .. MaxTasks,
         recent' = recent, up' = up, clean' \in BOOLEAN
  PROVE  Counters'
<1>1. 0 \in 0 .. MaxIter /\ 0 \in 0 .. MaxTasks
  BY BoundsAssumption
<1> QED
  BY <1>1 DEF Counters, StartPrompt

(* The end of a run.                                                       *)
LEMMA FinishCounters ==
  ASSUME Counters, NEW c, NEW interrupted \in BOOLEAN, Finish(c, interrupted)
  PROVE  Counters'
<1> DEFINE ts == Bound(IF interrupted THEN CloseDanglingToolCalls(c) ELSE c)
<1>1. clean' \in BOOLEAN /\ up' = up /\ task' = task
  BY DEF Finish
<1>2. IF queued # 0
        THEN StartPrompt(ts, User(queued)) /\ recent' = recent
        ELSE /\ PersistPause(ts, interrupted) /\ running' = FALSE /\ iteration' = 0 /\ queued' = queued
  BY DEF Finish
<1> HIDE DEF ts
<1>3. CASE queued # 0
  BY <1>1, <1>2, <1>3, StartCounters DEF Counters
<1>4. CASE queued = 0
  <2>1. recent' \in BOOLEAN
    BY <1>2, <1>4 DEF PersistPause, Persist, Counters
  <2>2. 0 \in 0 .. MaxIter
    BY BoundsAssumption
  <2> QED
    BY <1>1, <1>2, <1>4, <2>1, <2>2 DEF Counters
<1> QED
  BY <1>3, <1>4

(* The counters stay in their bounds.                                      *)
LEMMA CountersStep ==
  ASSUME Counters, [Next]_vars
  PROVE  Counters'
<1>1. /\ MaxIter \in Nat /\ MaxTasks \in Nat /\ 0 \in 0 .. MaxIter /\ 0 \in 0 .. MaxTasks
  BY BoundsAssumption
<1>2. task < MaxTasks => task + 1 \in 0 .. MaxTasks
  BY <1>1 DEF Counters
<1>3. CASE Prompt
  BY <1>2, <1>3, StartCounters DEF Prompt, Counters
<1>4. CASE Continue
  BY <1>4, StartCounters DEF Continue, Counters
<1>5. CASE Queue
  BY <1>2, <1>5 DEF Queue, Counters, session, run
<1>6. CASE Send
  <2>1. iteration' = iteration + 1 /\ iteration < MaxIter /\ UNCHANGED <<recent, running, up, queued, task, clean>>
    BY <1>6 DEF Send, session
  <2>2. iteration' \in 0 .. MaxIter
    BY <1>1, <2>1 DEF Counters
  <2> QED
    BY <2>1, <2>2 DEF Counters
<1>7. CASE ReplyText \/ ReplyError \/ Stop
  BY <1>7, FinishCounters DEF ReplyText, ReplyError, Stop
<1>8. ASSUME NEW c, Grow(c)
      PROVE  Counters'
  BY <1>8 DEF Grow, Counters, session
<1>9. CASE ReplyTruncated
  BY <1>8, <1>9 DEF ReplyTruncated
<1>10. ASSUME NEW cs \in CallLists, ReplyTools(cs) \/ ReplyQuestion(cs)
       PROVE  Counters'
  BY <1>8, <1>10, FinishCounters DEF ReplyTools, ReplyQuestion
<1>11. ASSUME NEW cs \in CallLists, NEW n \in 1 .. Len(cs), ReplyToolsCancelled(cs, n)
       PROVE  Counters'
  BY <1>11, FinishCounters DEF ReplyToolsCancelled
<1>12. ASSUME NEW ts \in ForkTurns, NEW p \in BOOLEAN, SessionMemoryReplace(ts, p)
       PROVE  Counters'
  BY <1>1, <1>12 DEF SessionMemoryReplace, Persist, Counters
<1>13. CASE \/ RestoreConversation \/ Restore \/ TimePasses \/ (\E m \in Models : Select(m))
            \/ ReadStore \/ UNCHANGED vars
  BY <1>13 DEF RestoreConversation, Restore, TimePasses, Select, ReadStore, vars, own, session, run, Counters
<1>14. CASE Stopping \/ Crash
  BY <1>1, <1>14 DEF Stopping, Crash, Halt, Counters
<1> QED
  BY <1>3, <1>4, <1>5, <1>6, <1>7, <1>9, <1>10, <1>11, <1>12, <1>13, <1>14 DEF Next, Act

(* It holds at the start.                                                  *)
LEMMA InitConserved == Init => Conserved
<1> SUFFICES ASSUME Init PROVE Conserved
  OBVIOUS
<1>1. /\ turns = <<>> /\ conv = <<>> /\ running = FALSE /\ sent = <<>>
      /\ kv = [turns |-> <<>>, paused |-> FALSE] /\ offered = <<>>
  BY DEF Init
<1>2. kv.turns = <<>> /\ Sound(<<>>)
  BY <1>1, FullNone DEF Full
<1>3. Data
  BY <1>1, <1>2, StoredNone DEF Data
<1>4. Counters
  <2>1. 0 \in 0 .. MaxIter /\ 0 \in 0 .. MaxTasks
    BY BoundsAssumption
  <2> QED
    BY <2>1 DEF Init, Counters
<1> QED
  BY <1>1, <1>3, <1>4, InitKept, StoredNone DEF Conserved

(* No sequence of interrupts, cuts, forks and restarts tears a call from   *)
(* its result, in the store (session_memory.go), in a run                  *)
(* (orchestrator.go) or in the request (toolpairing.go): everything that   *)
(* is stored is paired, every request is accepted, and it holds every      *)
(* result; for any windows, calls and forks.                               *)
THEOREM ConversationSafe == Spec => []ConversationWhole
<1>1. Conserved /\ [Next]_vars => Conserved'
  <2> SUFFICES ASSUME Conserved, [Next]_vars PROVE Conserved'
    OBVIOUS
  <2>1. Posted
    BY DEF Conserved, Stored, Sound, Posted
  <2>2. Stored(offered')
    <3>1. offered' = offered \/ offered' = kv.turns \/ offered' = <<>>
      BY DEF Next, ReadStore, RestoreConversation, vars
    <3> QED
      BY <3>1, StoredNone DEF Conserved, Data
  <2>3. Kept' /\ Data' /\ Counters'
    BY <2>1, NextStep, DataStep, CountersStep DEF Conserved
  <2> QED
    BY <2>2, <2>3 DEF Conserved, Stored, Sound, Turns, HasUser, Headed
<1> QED
  BY <1>1, InitConserved, ConservedWhole, PTL DEF Spec
=============================================================================
