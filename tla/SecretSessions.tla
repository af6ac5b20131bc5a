--------------------------- MODULE SecretSessions ---------------------------
(***************************************************************************)
(* The sessions of SecretNAT: one table of tokens for each conversation,   *)
(* reached through a handle that the run keeps.  Text is a sequence of     *)
(* turns, a turn one piece: a value, a token minted for it, or the         *)
(* reference of a registered secret.  Which strings a detector matches is  *)
(* a parameter.  The conversation outlives the tables.  What the model     *)
(* writes repeats pieces of its request; some of it is never rewritten.    *)
(***************************************************************************)
EXTENDS Integers, Sequences, FiniteSets, SequencesExt

CONSTANTS
    Convs,        \* conversations
    Values,       \* texts that may be secrets
    Names,        \* names of registered secrets
    Setups        \* what the conversations, the user and the manager may do

(* A setup: who writes what, the values that a detector matches, those     *)
(* shorter than minKnownValueLen, the names that may be registered, the    *)
(* token styles, whether MappingTTL > 0, whether the user may switch       *)
(* translation off, for everyone or for one session; bounds on the tables  *)
(* ever made, the turns of a conversation and the restarts.                *)
Setup ==
    [convs : SUBSET Convs, values : SUBSET Values, detectable : SUBSET Values, short : SUBSET Values,
     names : SUBSET Names, modes : SUBSET {"semantic", "private"}, expires : BOOLEAN,
     mayDisable : BOOLEAN, mayOverride : BOOLEAN, tables : Nat, turns : Nat, restarts : Nat]

VARIABLES
    setup,     \* one of Setups; it never changes
    table,     \* the tables: what each value is called, whether it has been idle for the TTL,
               \* and the override of its session
    sessions,  \* Manager.sessions: conversation -> table, 0 if none
    held,      \* the handle the run of a conversation keeps, 0 if none
    closed,    \* tables whose session was closed
    known,     \* KnownSet: name -> value, for the registered names
    enabled, mode,
    conv,      \* the persisted turns: what is written, what it stood for, under which table,
               \* and whether it is a thinking block, a JSON key or a malformed input
    wire,      \* the last request of a conversation, and what it was made under
    told,      \* the values that the model of a conversation has been told in clear
    got,       \* the last tool input restored
    restarts

vars == <<setup, table, sessions, held, closed, known, enabled, mode, conv, wire, told, got, restarts>>

Detectable == setup.detectable
Modes      == setup.modes
Expires    == setup.expires
MaxTables  == setup.tables
MaxTurns   == setup.turns

None == [kind |-> "none"]

Raw(v) == [kind |-> "value", value |-> v]
Ref(n) == [kind |-> "ref", name |-> n]

Overrides == {"none", "on", "off"}

Empty == [token |-> <<>>, seq |-> 0, idle |-> FALSE, override |-> "none"]

Init ==
    /\ setup \in Setups
    /\ table = <<>> /\ closed = {}
    /\ sessions = [c \in Convs |-> 0] /\ held = [c \in Convs |-> 0]
    /\ known = <<>> /\ enabled = TRUE /\ mode \in Modes
    /\ conv = [c \in Convs |-> <<>>] /\ wire = [c \in Convs |-> [turns |-> <<>>]]
    /\ told = [c \in Convs |-> {}]
    /\ got = None /\ restarts = 0

-----------------------------------------------------------------------------
(* TokenFor and the generator: the first sight of a value takes the next   *)
(* number, whatever the style.                                             *)
Minted(n) == [kind |-> "token", style |-> mode, n |-> n]

Called(t, v, n) == [x \in DOMAIN t.token \union {v} |-> IF x = v THEN Minted(n) ELSE t.token[x]]

MintAnew(t, v) == [t EXCEPT !.token = Called(t, v, t.seq + 1), !.seq = t.seq + 1, !.idle = FALSE]

MintStyled(t, v) ==
    IF v \in DOMAIN t.token THEN [t EXCEPT !.idle = FALSE]
    ELSE [t EXCEPT !.token = Called(t, v, 1 + Cardinality({x \in DOMAIN t.token : t.token[x].style # mode})),
                   !.seq = t.seq + 1, !.idle = FALSE]

TokenFor(t, v) ==
    IF v \in DOMAIN t.token THEN [t EXCEPT !.idle = FALSE]
    ELSE [t EXCEPT !.token = Called(t, v, t.seq + 1), !.seq = t.seq + 1, !.idle = FALSE]

NamesOf(v) == {n \in DOMAIN known : known[n] = v}

(* Sanitize: registered secrets first, then what the detectors match;      *)
(* tokens and references are left alone.                                   *)
Detected(piece) == piece.kind = "value" /\ NamesOf(piece.value) = {} /\ piece.value \in Detectable

Mint(t, piece) == IF Detected(piece) THEN TokenFor(t, piece.value) ELSE t

Sanitized(t, piece) ==
    IF piece.kind # "value" THEN piece
    ELSE IF NamesOf(piece.value) # {} THEN Ref(CHOOSE n \in NamesOf(piece.value) : TRUE)
    ELSE IF Detected(piece) THEN t.token[piece.value] ELSE piece

(* Restore: an exact token of this table, then a registered reference.     *)
Restored(t, piece) ==
    IF \E v \in DOMAIN t.token : t.token[v] = piece
    THEN Raw(CHOOSE v \in DOMAIN t.token : t.token[v] = piece)
    ELSE IF piece.kind = "ref" /\ piece.name \in DOMAIN known THEN Raw(known[piece.name]) ELSE piece

-----------------------------------------------------------------------------
(* The manager.                                                            *)
Swept == IF Expires THEN [c \in Convs |-> IF sessions[c] # 0 /\ table[sessions[c]].idle THEN 0 ELSE sessions[c]]
                    ELSE sessions

ForAny(c) == IF \E d \in Convs : Swept[d] # 0 THEN Swept[CHOOSE d \in Convs : Swept[d] # 0] ELSE 0

(* Session: expired sessions are dropped, then the conversation's own is   *)
(* found or made.                                                          *)
Lookup(c) == Swept[c]

Session(c) ==
    /\ IF Lookup(c) # 0
       THEN /\ sessions' = Swept /\ table' = table
            /\ held' = [held EXCEPT ![c] = Lookup(c)]
       ELSE /\ Len(table) < MaxTables
            /\ table' = Append(table, Empty)
            /\ sessions' = [Swept EXCEPT ![c] = Len(table) + 1]
            /\ held' = [held EXCEPT ![c] = Len(table) + 1]
    /\ UNCHANGED <<closed, known, enabled, mode, conv, wire, told, got, restarts>>

(* A status command looks the session up for itself; the run keeps its own. *)
Inspect(c) ==
    /\ Lookup(c) = 0 /\ held[c] # 0 /\ Len(table) < MaxTables
    /\ table' = Append(table, Empty)
    /\ sessions' = [Swept EXCEPT ![c] = Len(table) + 1]
    /\ UNCHANGED <<held, closed, known, enabled, mode, conv, wire, told, got, restarts>>

CloseSession(c) ==
    /\ sessions[c] # 0
    /\ sessions' = [sessions EXCEPT ![c] = 0]
    /\ closed' = closed \union {sessions[c]}
    /\ UNCHANGED <<table, held, known, enabled, mode, conv, wire, told, got, restarts>>

(* Longer than the TTL goes by.                                            *)
Silence ==
    /\ Expires /\ \E i \in DOMAIN table : ~table[i].idle
    /\ table' = [i \in DOMAIN table |-> [table[i] EXCEPT !.idle = TRUE]]
    /\ UNCHANGED <<sessions, held, closed, known, enabled, mode, conv, wire, told, got, restarts>>

(* NewKnownSet leaves the short values out.                                *)
UpdateKnownSecrets ==
    /\ \E S \in SUBSET setup.names : \E f \in [S -> setup.values \ setup.short] : f # known /\ known' = f
    /\ UNCHANGED <<table, sessions, held, closed, enabled, mode, conv, wire, told, got, restarts>>

SetEnabled ==
    /\ setup.mayDisable /\ enabled' = ~enabled
    /\ UNCHANGED <<table, sessions, held, closed, known, mode, conv, wire, told, got, restarts>>

(* The override of one session goes before the switch of the manager.      *)
SetOverride(c) ==
    /\ setup.mayOverride /\ Lookup(c) # 0 /\ sessions' = Swept
    /\ \E o \in Overrides \ {table[Lookup(c)].override} : table' = [table EXCEPT ![Lookup(c)].override = o]
    /\ UNCHANGED <<held, closed, known, enabled, mode, conv, wire, told, got, restarts>>

On(h) == IF table[h].override = "none" THEN enabled ELSE table[h].override = "on"

SetMode ==
    /\ \E m \in Modes \ {mode} : mode' = m
    /\ UNCHANGED <<table, sessions, held, closed, known, enabled, conv, wire, told, got, restarts>>

-----------------------------------------------------------------------------
(* The run of a conversation.  Text from the user and from tools is        *)
(* sanitized as it is written.                                             *)
Write(c, v) ==
    /\ held[c] # 0 /\ Len(conv[c]) < MaxTurns
    /\ LET on == On(held[c])
           after == Mint(table[held[c]], Raw(v))
           shown == IF on THEN Sanitized(after, Raw(v)) ELSE Raw(v)
       IN  /\ table' = IF on THEN [table EXCEPT ![held[c]] = after] ELSE table
           /\ conv' = [conv EXCEPT ![c] = Append(@, [shown |-> shown, stood |-> v, table |-> held[c], kept |-> FALSE])]
    /\ UNCHANGED <<sessions, held, closed, known, enabled, mode, wire, told, got, restarts>>

(* The request: every turn once more, on a copy.  Thinking blocks are not  *)
(* rewritten, nor are the keys of tool inputs and inputs that do not parse. *)
OutgoingAsWritten(c, t) == [i \in DOMAIN conv[c] |-> conv[c][i].shown]

Outgoing(c, t) == [i \in DOMAIN conv[c] |->
    IF On(held[c]) /\ ~conv[c][i].kept THEN Sanitized(t, conv[c][i].shown) ELSE conv[c][i].shown]

(* The table of the run after each of the turns was looked at.             *)
Looked(t, x) == IF x.kept THEN t ELSE Mint(t, x.shown)

Afterwards(c) ==
    LET after[n \in 0 .. Len(conv[c])] ==
          IF n = 0 THEN table[held[c]] ELSE Looked(after[n - 1], conv[c][n])
    IN  after[Len(conv[c])]

InClear(turns) == {turns[i].value : i \in {j \in DOMAIN turns : turns[j].kind = "value"}}

Request(c) ==
    /\ held[c] # 0 /\ conv[c] # <<>>
    /\ LET t == IF On(held[c]) THEN Afterwards(c) ELSE table[held[c]]
           turns == Outgoing(c, t)
       IN  /\ table' = [table EXCEPT ![held[c]] = t]
           /\ wire' = [wire EXCEPT ![c] = [turns |-> turns, under |-> <<held[c], known, On(held[c])>>]]
           /\ told' = [told EXCEPT ![c] = @ \union InClear(turns)]
    /\ UNCHANGED <<sessions, held, closed, known, enabled, mode, conv, got, restarts>>

(* The model repeats a piece of its request, in text, in a tool input or   *)
(* in its thinking, and the turn is persisted as it came.                  *)
Reply(c, i) ==
    /\ held[c] # 0 /\ i \in DOMAIN wire[c].turns /\ Len(conv[c]) < MaxTurns
    /\ \E kept \in BOOLEAN :
          conv' = [conv EXCEPT ![c] = Append(@,
                     [shown |-> wire[c].turns[i], stood |-> conv[c][i].stood, kept |-> kept,
                      table |-> IF conv[c][i].shown.kind = "token" THEN conv[c][i].table ELSE wire[c].under[1]])]
    /\ UNCHANGED <<table, sessions, held, closed, known, enabled, mode, wire, told, got, restarts>>

(* The model repeats a piece of its request in a tool call, and the tool   *)
(* runs on the restored piece.                                             *)
ToolCall(c, i) ==
    /\ held[c] # 0 /\ i \in DOMAIN wire[c].turns
    /\ LET t == table[held[c]]
           on == On(held[c])
           piece == wire[c].turns[i]
       IN  /\ got' = [kind |-> "tool", conv |-> c, turn |-> conv[c][i], via |-> held[c], wrote |-> piece,
                      on |-> on, input |-> IF on THEN Restored(t, piece) ELSE piece]
           /\ table' = IF on /\ t.token # <<>> THEN [table EXCEPT ![held[c]].idle = FALSE] ELSE table
    /\ UNCHANGED <<sessions, held, closed, known, enabled, mode, conv, wire, told, restarts>>

(* A restart: the tables are gone, the conversations are loaded.           *)
Restart ==
    /\ restarts < setup.restarts /\ restarts' = restarts + 1
    /\ sessions' = [c \in Convs |-> 0] /\ held' = [c \in Convs |-> 0]
    /\ wire' = [c \in Convs |-> [turns |-> <<>>]] /\ got' = None
    /\ UNCHANGED <<table, closed, known, enabled, mode, conv, told>>

Step ==
    \/ \E c \in setup.convs : Session(c) \/ Inspect(c) \/ CloseSession(c) \/ SetOverride(c) \/ Request(c)
    \/ \E c \in setup.convs, v \in setup.values : Write(c, v)
    \/ \E c \in setup.convs, i \in 1 .. MaxTurns : Reply(c, i) \/ ToolCall(c, i)
    \/ Silence \/ UpdateKnownSecrets \/ SetEnabled \/ SetMode \/ Restart

Next == Step /\ UNCHANGED setup

Spec == Init /\ [][Next]_vars

-----------------------------------------------------------------------------
(* Properties. *)

Pieces == [kind : {"value"}, value : Values] \union [kind : {"ref"}, name : Names]
          \union [kind : {"token"}, style : Modes, n : 1 .. Cardinality(Values)]

TypeOK ==
    /\ \A i \in DOMAIN table : DOMAIN table[i].token \subseteq Detectable /\ table[i].seq = Cardinality(DOMAIN table[i].token)
    /\ {sessions[c] : c \in Convs} \union {held[c] : c \in Convs} \subseteq 0 .. Len(table)
    /\ \A c \in Convs : \A i \in DOMAIN conv[c] : conv[c][i].shown \in Pieces /\ conv[c][i].stood \in Values

Secret(piece) == piece.kind = "value" /\ (NamesOf(piece.value) # {} \/ piece.value \in Detectable)

(* "The LLM provider never sees a real secret" (detector.go): a request    *)
(* made while translation is on tells the model no registered or detected  *)
(* value, also of turns written before the secret was registered or while  *)
(* translation was off, but for what it has written itself where nothing   *)
(* is rewritten, having been told the value in clear before.               *)
RequestClean ==
    [][\A c \in Convs : wire'[c] # wire[c] /\ held[c] # 0 /\ On(held[c]) =>
          \A i \in DOMAIN wire'[c].turns : Secret(wire'[c].turns[i]) =>
              conv[c][i].kept /\ wire'[c].turns[i].value \in told[c]]_vars

(* "byte-stable for prompt caching" (sanitize.go): a request made with     *)
(* the secrets, the switch and the handle of the last one                  *)
(* repeats the last one, also when the token style was changed between.     *)
RequestStable ==
    [][\A c \in Convs : wire[c].turns # <<>> /\ wire'[c].turns # <<>> /\ wire'[c].under = wire[c].under
          => IsPrefix(wire[c].turns, wire'[c].turns)]_vars

(* A table never gives one token to two values, nor takes one back: two    *)
(* conversations may use the same numbers for different values.            *)
TableGrows ==
    [][\A i \in DOMAIN table : \A v \in DOMAIN table[i].token :
          /\ v \in DOMAIN table'[i].token /\ table'[i].token[v] = table[i].token[v]
          /\ \A w \in DOMAIN table'[i].token : w # v => table'[i].token[w] # table[i].token[v]]_vars

(* Two conversations never share a table: what one was told is not put     *)
(* back in the other.                                                      *)
Isolated == \A c, d \in Convs : c # d /\ held[c] # 0 => held[c] # held[d]

(* "transparent, reversible" (detector.go): a tool that is called with a   *)
(* token receives the value the token was written for, as long as the run  *)
(* keeps the table under which it was written.                             *)
Reversible ==
    got.kind = "tool" /\ got.wrote.kind = "token" /\ got.via = got.turn.table /\ got.on
        => got.input = Raw(got.turn.stood)

(* A token leads back to the value it was written for, and to no value of  *)
(* another conversation (secretnat.go, mapping.go).                        *)
TokensReversible == TypeOK /\ Isolated /\ Reversible

(* Requests tell no secret, repeat what the provider has cached, and      *)
(* never take a token back (sanitize.go).                                  *)
RequestsTranslated == RequestClean /\ RequestStable /\ TableGrows
=============================================================================
