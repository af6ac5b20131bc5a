--------------------------- MODULE StreamSessions ---------------------------
(***************************************************************************)
(* The streaming sessions of an integration: each has a goroutine that     *)
(* reads frames from a request into a bounded ring, callers that poll and  *)
(* stop it, and a sweeper that expires it.                                 *)
(*                                                                         *)
(* A caller looks a session up under the manager's lock and works on it    *)
(* under the session's lock; in between it holds a session that others may *)
(* expire or remove.  A frame is its sequence number and its size.  Times  *)
(* are kept as the time since the last poll and since the start.           *)
(***************************************************************************)
EXTENDS Integers, Sequences, FiniteSets, SequencesExt, Ordered

CONSTANTS
    Ids,            \* the sessions that may be started
    Callers,        \* concurrent users of the session tool
    None,
    Setups,         \* the limits of the manager, and who uses it with which frames
    MaxSessions,    \* StreamOptions.MaxSessions
    MaxBytes,       \* ring capacity in bytes
    MaxFrameBytes,  \* longer frames are truncated and marked
    MarkerBytes,    \* the marker of a truncated frame
    PollBytes,      \* DefaultPollMaxBytes
    IdleTTL

VARIABLES
    setup,      \* one of Setups; it never changes
    sess,       \* the sessions
    table,      \* StreamManager.sessions
    closed,
    closing,    \* the sessions that CloseAll has still to cancel, and the one it has to finish
    caller,     \* what each caller is doing
    got         \* of each session, the frames polled, the drops reported, and what Stop answered

vars == <<setup, sess, table, closed, closing, caller, got>>

MaxFrames   == setup.maxFrames      \* ring capacity in frames
MaxLifetime == setup.maxLifetime
PollFrames  == setup.pollFrames     \* DefaultPollMaxFrames
Sizes       == setup.sizes          \* the sizes of the frames that arrive
MaxPushes   == setup.pushes         \* bound on the frames of a session

Fresh ==
    [frames |-> <<>>, nextSeq |-> 0, cursor |-> 0, dropped |-> 0, done |-> FALSE, reason |-> "",
     idle |-> 0, age |-> 0, cancelled |-> FALSE, running |-> FALSE]

Idle == [op |-> "none", id |-> None]

Init ==
    /\ setup \in Setups
    /\ sess = [i \in Ids |-> Fresh] /\ table = {}
    /\ closed = FALSE /\ closing = [todo |-> {}, at |-> None]
    /\ caller = [c \in Callers |-> Idle]
    /\ got = [i \in Ids |-> [polled |-> <<>>, drops |-> 0, stops |-> {}]]

Started(i) == sess[i].running \/ sess[i].done
Bytes(fs)  == FoldSeq(LAMBDA f, sum : f.size + sum, 0, fs)
Unread(s)  == Chosen(s.frames, {k \in DOMAIN s.frames : s.frames[k].seq >= s.cursor})
Least(a, b) == IF a < b THEN a ELSE b

-----------------------------------------------------------------------------
(* Start. *)
LiveOnes == {i \in table : ~sess[i].done}

Recent == {i \in table : sess[i].idle = 0}

Live == LiveOnes

Start(i) ==
    /\ i \in setup.ids /\ ~closed /\ ~Started(i) /\ Cardinality(Live) < MaxSessions
    /\ sess' = [sess EXCEPT ![i].running = TRUE]
    /\ table' = table \union {i}
    /\ UNCHANGED <<closed, closing, caller, got>>

(* The ring: the oldest frames go until both bounds hold; one frame always *)
(* stays.  A frame that was never polled counts as dropped.                *)
Fits(fs) == Len(fs) <= MaxFrames /\ (Bytes(fs) <= MaxBytes \/ Len(fs) = 1)

EvictOne(fs) == IF Fits(fs) THEN 0 ELSE 1

Evicted(fs) == CHOOSE n \in 0 .. Len(fs) :
                   /\ Fits(SubSeq(fs, n + 1, Len(fs)))
                   /\ \A k \in 0 .. (n - 1) : ~Fits(SubSeq(fs, k + 1, Len(fs)))

AllEvicted(fs, n, cursor) == n

Lost(fs, n, cursor) == Cardinality({k \in 1 .. n : fs[k].seq >= cursor})

Truncated(size) == IF size > MaxFrameBytes THEN MaxFrameBytes + MarkerBytes ELSE size

Pushed(s, size) ==
    LET fs == Append(s.frames, [seq |-> s.nextSeq, size |-> Truncated(size)])
        n  == Evicted(fs)
    IN  [s EXCEPT !.frames = SubSeq(fs, n + 1, Len(fs)), !.nextSeq = @ + 1,
                  !.dropped = @ + Lost(fs, n, s.cursor)]

PushLate(i, size) ==
    /\ sess[i].running /\ sess[i].nextSeq < MaxPushes
    /\ sess' = [sess EXCEPT ![i] = Pushed(@, size)]
    /\ UNCHANGED <<table, closed, closing, caller, got>>

Push(i, size) ==
    /\ sess[i].running /\ sess[i].nextSeq < MaxPushes
    /\ ~sess[i].done
    /\ sess' = [sess EXCEPT ![i] = Pushed(@, size)]
    /\ UNCHANGED <<table, closed, closing, caller, got>>

(* finish: the first reason wins. *)
LastReason(s, reason) == [s EXCEPT !.done = TRUE, !.reason = reason]

Finished(s, reason) == IF s.done THEN s ELSE [s EXCEPT !.done = TRUE, !.reason = reason]

(* The stream ends, fails, or notices that it is cancelled. *)
RunReturns(i, err) ==
    /\ sess[i].running
    /\ sess' = [sess EXCEPT ![i] = [Finished(@, IF sess[i].cancelled THEN "cancelled"
                                                ELSE IF err THEN "error" ELSE "ended")
                                        EXCEPT !.running = FALSE]]
    /\ UNCHANGED <<table, closed, closing, caller, got>>

-----------------------------------------------------------------------------
(* Poll: the unread frames up to the bounds; the first that does not fit   *)
(* ends the poll.                                                          *)
LookUp(c, i, op) ==
    /\ caller[c] = Idle /\ i \in table
    /\ caller' = [caller EXCEPT ![c] = [op |-> op, id |-> i]]

Taken(s, max) ==
    LET u == Unread(s)
        Ok(n) == n <= max /\ \A k \in 1 .. n : Bytes(SubSeq(u, 1, k)) <= PollBytes
    IN  SubSeq(u, 1, CHOOSE n \in 0 .. Len(u) : Ok(n) /\ \A k \in (n + 1) .. Len(u) : ~Ok(k))

KeepCursor(s, taken) == s.cursor

Cursor(s, taken) == IF taken = <<>> THEN s.cursor ELSE Last(taken).seq + 1

PollBegin(c, i) == LookUp(c, i, "poll") /\ UNCHANGED <<sess, table, closed, closing, got>>

Poll(c, max) ==
    /\ caller[c].op = "poll"
    /\ LET i == caller[c].id
           taken == Taken(sess[i], max)
       IN  /\ sess' = [sess EXCEPT ![i].idle = 0, ![i].dropped = 0,
                                   ![i].cursor = Cursor(sess[i], taken)]
           /\ got' = [got EXCEPT ![i].polled = @ \o taken, ![i].drops = @ + sess[i].dropped]
    /\ caller' = [caller EXCEPT ![c] = Idle]
    /\ UNCHANGED <<table, closed, closing>>

(* Stop: the session leaves the table, its request is cancelled, and the   *)
(* caller is told what has not been polled, as far as a poll would go.     *)
(* The answer is read later than the table, and it takes nothing: a poll   *)
(* that looked the session up before gets the same frames and drops again. *)
StopBegin(c, i) ==
    /\ LookUp(c, i, "cancel")
    /\ table' = table \ {i}
    /\ UNCHANGED <<sess, closed, closing, got>>

StopCancel(c) ==
    /\ caller[c].op = "cancel"
    /\ sess' = [sess EXCEPT ![caller[c].id].cancelled = TRUE]
    /\ caller' = [caller EXCEPT ![c].op = "finish"]
    /\ UNCHANGED <<table, closed, closing, got>>

StopFinish(c) ==
    /\ caller[c].op = "finish"
    /\ sess' = [sess EXCEPT ![caller[c].id] = Finished(@, "stopped")]
    /\ caller' = [caller EXCEPT ![c].op = "report"]
    /\ UNCHANGED <<table, closed, closing, got>>

Answer(s, g) ==
    LET u == Unread(s)
        taken == Taken(s, PollFrames)
    IN  [before |-> g.polled, told |-> g.drops + s.dropped,
         frames |-> taken, left |-> SubSeq(u, Len(taken) + 1, Len(u))]

StopReport(c) ==
    /\ caller[c].op = "report"
    /\ LET i == caller[c].id IN got' = [got EXCEPT ![i].stops = @ \union {Answer(sess[i], got[i])}]
    /\ caller' = [caller EXCEPT ![c] = Idle]
    /\ UNCHANGED <<sess, table, closed, closing>>

-----------------------------------------------------------------------------
(* Sweep looks at all sessions under both locks; it does so one by one in  *)
(* any order, and the manager's lock keeps everyone else but the holders   *)
(* of a session out.                                                       *)
ExpiredUncancelled(s) == [s EXCEPT !.done = TRUE, !.reason = "expired"]

Expired(s) == [s EXCEPT !.done = TRUE, !.reason = "expired", !.cancelled = TRUE]

TooOldByIdle(s) == s.idle > MaxLifetime

TooOld(s) == s.age > MaxLifetime

Removable(s) == s.done /\ s.idle > IdleTTL

Overdue(s) == s.idle > IdleTTL \/ TooOld(s)

Sweep ==
    /\ \E i \in table : Overdue(sess[i]) \/ Removable(sess[i])
    /\ table' = {i \in table : ~Removable(sess[i])}
    /\ sess' = [i \in Ids |-> IF i \in table /\ ~sess[i].done /\ Overdue(sess[i])
                                THEN Expired(sess[i]) ELSE sess[i]]
    /\ UNCHANGED <<closed, closing, caller, got>>

(* CloseAll empties the table under the lock; then it cancels and finishes *)
(* what was in it, one by one in any order, while everybody goes on.       *)
CloseAll ==
    /\ ~closed /\ closed' = TRUE
    /\ table' = {} /\ closing' = [closing EXCEPT !.todo = @ \union table]
    /\ UNCHANGED <<sess, caller, got>>

CloseCancel(i) ==
    /\ i \in closing.todo /\ closing.at = None
    /\ sess' = [sess EXCEPT ![i].cancelled = TRUE]
    /\ closing' = [todo |-> closing.todo \ {i}, at |-> i]
    /\ UNCHANGED <<table, closed, caller, got>>

CloseFinish ==
    /\ closing.at # None
    /\ sess' = [sess EXCEPT ![closing.at] = Finished(@, "closed")]
    /\ closing' = [closing EXCEPT !.at = None]
    /\ UNCHANGED <<table, closed, caller, got>>

(* Time: counted as far as the comparisons see it, which look only at the  *)
(* sessions in the table.                                                  *)
Tick ==
    /\ \E i \in table : sess[i].idle <= IdleTTL \/ sess[i].age <= MaxLifetime
    /\ sess' = [i \in Ids |-> IF i \in table
                                THEN [sess[i] EXCEPT !.idle = Least(@ + 1, IdleTTL + 1),
                                                     !.age  = Least(@ + 1, MaxLifetime + 1)]
                                ELSE sess[i]]
    /\ UNCHANGED <<table, closed, closing, caller, got>>

Step ==
    \/ \E i \in Ids : \/ Start(i)
                      \/ \E size \in Sizes : Push(i, size)
                      \/ \E err \in BOOLEAN : RunReturns(i, err)
                      \/ \E c \in Callers : PollBegin(c, i) \/ StopBegin(c, i)
                      \/ CloseCancel(i)
    \/ \E c \in Callers : \/ StopCancel(c) \/ StopFinish(c) \/ StopReport(c)
                          \/ \E max \in 1 .. PollFrames : Poll(c, max)
    \/ Sweep \/ CloseAll \/ CloseFinish \/ Tick

Next == Step /\ UNCHANGED setup

Spec == Init /\ [][Next]_vars

(* The clock runs, the sweeper's ticker fires, a request returns when its  *)
(* context is cancelled, and callers and CloseAll go on.                   *)
Fairness ==
    /\ WF_vars(Tick /\ UNCHANGED setup) /\ WF_vars(Sweep /\ UNCHANGED setup)
    /\ \A i \in Ids : WF_vars(sess[i].cancelled /\ RunReturns(i, TRUE) /\ UNCHANGED setup)
    /\ \A c \in Callers : WF_vars((StopCancel(c) \/ StopFinish(c)) /\ UNCHANGED setup)
    /\ WF_vars((CloseFinish \/ \E i \in Ids : CloseCancel(i)) /\ UNCHANGED setup)

LiveSpec == Spec /\ Fairness

-----------------------------------------------------------------------------
(* Properties. *)

(* The ring keeps its bounds and is contiguous up to the newest frame; a   *)
(* session that has not started is empty.                                  *)
TypeOK ==
    \A i \in Ids :
        LET s == sess[i]
        IN  /\ s.frames # <<>> => Fits(s.frames) /\ Last(s.frames).seq = s.nextSeq - 1
            /\ \A k \in 1 .. (Len(s.frames) - 1) : s.frames[k + 1].seq = s.frames[k].seq + 1
            /\ ~Started(i) => s = Fresh
            /\ s.done = (s.reason # "")

(* "at most 8 live sessions per manager" (stream.go:17), counting those    *)
(* that others start, stop and expire meanwhile.                           *)
LiveBounded == Cardinality(LiveOnes) <= MaxSessions

(* Every frame is polled once and in order, or reported to a poll as       *)
(* dropped, or still in the ring, whatever polls, pushes, evictions and    *)
(* stops interleave.                                                       *)
Accounted ==
    \A i \in Ids :
        LET p == got[i].polled
        IN  /\ \A k \in 1 .. (Len(p) - 1) : p[k].seq < p[k + 1].seq
            /\ sess[i].nextSeq = Len(p) + got[i].drops + sess[i].dropped + Len(Unread(sess[i]))

(* Stop returns "any frames that had not been polled yet (bounded like a   *)
(* poll)" (stream.go:285): with what was polled before, its answer has     *)
(* every frame that was not dropped, except those a full answer leaves     *)
(* out.  Nothing is added to a session after its Stop has answered, and    *)
(* polls that were under way say the same again, in the same order.        *)
StopAnswers ==
    \A i \in Ids : \A a \in got[i].stops :
        /\ got[i].polled \o Unread(sess[i]) = a.before \o (a.frames \o a.left)
        /\ got[i].drops + sess[i].dropped = a.told
        /\ a.left # <<>> => ~(Len(a.frames) < PollFrames
                               /\ Bytes(a.frames \o <<a.left[1]>>) <= PollBytes)

(* No request goes on that nobody can stop: a session that has left the    *)
(* table is cancelled, or somebody is about to cancel it.                  *)
NoOrphan ==
    \A i \in Ids : sess[i].running /\ i \notin table =>
        \/ sess[i].cancelled \/ i \in closing.todo
        \/ \E c \in Callers : caller[c] = [op |-> "cancel", id |-> i]

(* "finish marks the session done (idempotent; the first reason wins)"     *)
(* (stream.go:238): what a poll was told of an ended session stays true.   *)
FirstReasonWins ==
    [][ \A i \in Ids : sess[i].done => sess'[i].done /\ sess'[i].reason = sess[i].reason ]_vars

(* "a session is cancelled 30 minutes after start regardless"              *)
(* (stream.go:14): polling does not keep a request going.                  *)
RequestsEnd == \A i \in Ids : sess[i].running ~> ~sess[i].running

(* What concurrent polls, pushes, stops and sweeps do to the sessions they *)
(* share: none is exceeded or unstoppable, no frame is lost without being  *)
(* reported but those a full answer of Stop leaves out, and an end stays   *)
(* as it was told (stream.go).                                             *)
SessionsKept ==
    /\ [](TypeOK /\ LiveBounded /\ Accounted /\ StopAnswers /\ NoOrphan)
    /\ FirstReasonWins
=============================================================================
