------------------------------ MODULE Delivery ------------------------------
(***************************************************************************)
(* Delivery of one message after another (internal/notify): FanOut.Send    *)
(* goes through the backends New wired, in order, each under a context of  *)
(* its own; Feishu posts to a group bot, or as an application whose token  *)
(* it mints and keeps; FileDrop writes three files; the relay runs a       *)
(* command.  Sends do not overlap: the callers in pipeline hold roundMu.   *)
(*                                                                         *)
(* A remote call is a request under way: what it carries may land, and     *)
(* then or without that it is answered, refused, broken off or timed out.  *)
(* A cancelled parent context breaks calls off, which any call may meet.   *)
(***************************************************************************)
EXTENDS Integers, Sequences, FiniteSets, FiniteSetsExt

CONSTANTS
    Configs,        \* what the operator may have configured
    SendBudget,     \* the 25 s of one backend's context
    RequestTimeout, \* the 15 s of Feishu's http.Client
    RelayTimeout,   \* openclaw.timeout
    Margin,         \* the two minutes a token is dropped early
    Lifetimes,      \* lifetimes a minted token may be given; 0: none named
    DefaultLife,    \* the two hours of a reply that names none
    MaxMessages,    \* BOUND
    MaxSends,       \* BOUND on sends of all messages
    MaxFaults,      \* BOUND on crashes and revocations
    MaxTime         \* BOUND on the clock

ASSUME DeliveryAssumption ==
    /\ Configs \subseteq [feishu : BOOLEAN, hook : BOOLEAN, app : BOOLEAN,
                          drop : BOOLEAN, relay : BOOLEAN, console : BOOLEAN]
    /\ {SendBudget, RequestTimeout, RelayTimeout, DefaultLife} \subseteq Nat \ {0}
    /\ Lifetimes \subseteq Nat /\ Margin \in Nat
    /\ Margin >= SendBudget + RequestTimeout
    /\ RequestTimeout <= SendBudget
    /\ {MaxMessages, MaxSends, MaxFaults, MaxTime} \subseteq Nat

Backends == {"feishu", "drop", "relay", "console"}
Messages == 1..MaxMessages
NoToken == [till |-> 0, short |-> FALSE, alive |-> FALSE]

VARIABLES
    now,
    config,
    pc,         \* where Send is
    turn,       \* the backend that has the message
    ends,       \* when the context of its turn ends
    until,      \* when the remote call under way times out
    landed,     \* what the call carries has arrived
    form,       \* the form Feishu is posting
    shown,      \* history: the forms this send put into the chat
    ok,         \* a backend has accepted this message
    token,      \* the server's view of the token Feishu keeps
    tokenTo,    \* Feishu.tokenTo
    msg,        \* the message being delivered
    acked,      \* messages whose Send returned nil
    reached,    \* history: how often a backend's reader got a message
    taken,      \* history: how often a backend accepted a message
    cut,        \* history: crashes in the middle of a message
    sends, faults
call == <<ends, until, landed, form, shown>>
history == <<reached, taken, cut>>
vars == <<now, config, pc, turn, call, ok, token, tokenTo, msg, acked, history, sends, faults>>

Remote == {"auth", "hook", "post", "relay"}
TypeOK ==
    /\ now \in 0..MaxTime /\ config \in Configs
    /\ pc \in {"idle", "turn", "json", "log", "done"} \union Remote
    /\ pc \in Remote => /\ now <= until /\ until <= ends
                        /\ ends <= now + SendBudget
    /\ form \in {"interactive", "text"} /\ shown \subseteq {"interactive", "text", "hook"}
    /\ landed \in BOOLEAN /\ ok \in BOOLEAN
    /\ token.alive => tokenTo <= token.till + RequestTimeout
    /\ acked \subseteq Messages
    /\ pc # "idle" => msg \in Messages \ acked
    /\ {reached, taken} \subseteq [Backends -> [Messages -> 0..MaxSends]]
    /\ cut \in [Messages -> 0..MaxFaults]
    /\ sends \in 0..MaxSends /\ faults \in 0..MaxFaults
-----------------------------------------------------------------------------
If(on, backend) == IF on THEN <<backend>> ELSE <<>>

\* New: Feishu, the drop and behind it the relay, the console.
Items == If(config.feishu, "feishu") \o If(config.drop, "drop")
            \o If(config.drop /\ config.relay, "relay") \o If(config.console, "console")

\* The group bot wins when both routes are configured.
Mode == IF config.hook THEN "webhook" ELSE IF config.app THEN "app" ELSE ""

Init ==
    /\ config \in Configs /\ Items # <<>>
    /\ now = 0 /\ pc = "idle" /\ turn = 1
    /\ ends = 0 /\ until = 0 /\ landed = FALSE /\ form = "interactive" /\ shown = {}
    /\ ok = FALSE /\ token = NoToken /\ tokenTo = 0
    /\ msg = 1 /\ acked = {}
    /\ reached = [b \in Backends |-> [m \in Messages |-> 0]]
    /\ taken = reached /\ cut = [m \in Messages |-> 0]
    /\ sends = 0 /\ faults = 0

At(backend) == pc = "turn" /\ Items[turn] = backend
-----------------------------------------------------------------------------
\* A caller hands a message over: the next one, or one whose Send had failed.
Send ==
    /\ pc = "idle" /\ msg \in Messages /\ sends < MaxSends
    /\ pc' = "turn" /\ turn' = 1 /\ ok' = FALSE
    /\ ends' = now + SendBudget /\ shown' = {} /\ sends' = sends + 1
    /\ UNCHANGED <<now, config, until, landed, form, token, tokenTo, msg, acked, history, faults>>

\* On to the next backend, which gets a context of its own.
Continue ==
    /\ IF turn < Len(Items)
       THEN pc' = "turn" /\ turn' = turn + 1 /\ ends' = now + SendBudget
       ELSE pc' = "done" /\ turn' = 1 /\ ends' = 0
    /\ until' = 0 /\ landed' = FALSE /\ form' = "interactive"

Fails == Continue /\ UNCHANGED <<ok, taken>>
Accepts ==
    /\ Continue
    /\ ok' = TRUE
    /\ taken' = [taken EXCEPT ![Items[turn]][msg] = @ + 1]

Reaches == reached' = [reached EXCEPT ![Items[turn]][msg] = @ + 1]

\* Mutant: send returns the error of the last backend.
AnsweredByTheLast == ok /\ taken[Items[Len(Items)]][msg] > 0

\* One acceptance is enough for Send to return nil; a caller told of a failure
\* sends again, or drops a card it does not retry.
Answered == ok
Return ==
    /\ pc = "done"
    /\ pc' = "idle"
    /\ acked' = acked \union (IF Answered THEN {msg} ELSE {})
    /\ \/ msg' = msg + 1
       \/ ~Answered /\ msg' = msg
    /\ ok' = FALSE /\ shown' = {}
    /\ UNCHANGED <<now, config, turn, ends, until, landed, form, token, tokenTo, history, sends,
                   faults>>
-----------------------------------------------------------------------------
\* Mutant: each call is given the context's whole length.
AskAnew(kind, timeout) ==
    /\ pc' = kind /\ landed' = FALSE
    /\ until' = now + timeout

\* client.Do: no later than its own timeout and the context of the turn.
Ask(kind, timeout) ==
    /\ pc' = kind /\ landed' = FALSE
    /\ until' = Min({now + timeout, ends})

NoRoute ==
    /\ At("feishu") /\ Mode = ""
    /\ Fails
    /\ UNCHANGED <<now, config, shown, token, tokenTo, msg, acked, reached, cut, sends, faults>>

SendWebhook ==
    /\ At("feishu") /\ Mode = "webhook"
    /\ Ask("hook", RequestTimeout)
    /\ UNCHANGED <<now, config, turn, ends, form, shown, ok, token, tokenTo, msg, acked, history,
                   sends, faults>>

Cached == token # NoToken /\ now < tokenTo

\* sendApp: with the token that is kept, or after asking for one.
SendApp ==
    /\ At("feishu") /\ Mode = "app"
    /\ IF Cached THEN Ask("post", RequestTimeout) /\ form' = "interactive"
                 ELSE Ask("auth", RequestTimeout) /\ UNCHANGED form
    /\ UNCHANGED <<now, config, turn, ends, shown, ok, token, tokenTo, msg, acked, history,
                   sends, faults>>

RunRelay ==
    /\ At("relay")
    /\ Ask("relay", RelayTimeout)
    /\ UNCHANGED <<now, config, turn, ends, form, shown, ok, token, tokenTo, msg, acked, history,
                   sends, faults>>
-----------------------------------------------------------------------------
\* tenantToken: a reply that names no life means two hours.
LifeOf(life) == IF life <= 0 THEN DefaultLife ELSE life

\* Mutant: the margin is not taken off.
KeptForAll(life) == LifeOf(life)

\* A reply that arrives at r names the life the server counted from
\* the grant; the client counts it from r, less the margin.
KeptFor(life) ==
    IF LifeOf(life) > Margin THEN LifeOf(life) - Margin ELSE LifeOf(life)

\* The server grants a token while the call is under way, and its reply may be
\* on the road until the call times out.
Granted ==
    /\ pc = "auth"
    /\ \E life \in Lifetimes, ago \in 0..RequestTimeout :
          /\ now - ago >= 0 /\ now - ago >= until - RequestTimeout
          /\ token' = [till |-> now - ago + LifeOf(life),
                       short |-> LifeOf(life) <= Margin, alive |-> TRUE]
          /\ tokenTo' = now + KeptFor(life)
    /\ Ask("post", RequestTimeout) /\ form' = "interactive"
    /\ UNCHANGED <<now, config, turn, ends, shown, ok, msg, acked, history, sends, faults>>

Good == token.alive /\ now < token.till

\* A reader gets the message: the server (or the assistant) acts on the call.
Land ==
    /\ pc \in {"hook", "post", "relay"} /\ ~landed
    /\ pc = "post" => Good
    /\ landed' = TRUE
    /\ Reaches
    /\ shown' = IF pc = "post" THEN shown \union {form} ELSE IF pc = "hook" THEN {"hook"} ELSE shown
    /\ UNCHANGED <<now, config, pc, turn, ends, until, form, ok, token, tokenTo, msg, acked, taken,
                   cut, sends, faults>>

\* Mutant: code 0 is taken for a delivery without a message id.
SuccessWithoutId ==
    /\ pc \in {"hook", "post", "relay"}
    /\ Accepts
    /\ UNCHANGED <<now, config, shown, token, tokenTo, msg, acked, reached, cut, sends, faults>>

\* HTTP 200 and code 0 (with a message id), or an exit status 0.
Success ==
    /\ pc \in {"hook", "post", "relay"} /\ landed
    /\ Accepts
    /\ UNCHANGED <<now, config, shown, token, tokenTo, msg, acked, reached, cut, sends, faults>>

\* The server says no.  A card it refuses goes out again as text, with the same
\* token; a webhook, a command and a text are given up.
Refused ==
    /\ pc \in Remote /\ ~landed
    /\ IF pc = "post" /\ form = "interactive"
       THEN /\ Ask("post", RequestTimeout) /\ form' = "text"
            /\ UNCHANGED <<turn, ends, ok, taken>>
       ELSE Fails
    /\ UNCHANGED <<now, config, shown, token, tokenTo, msg, acked, reached, cut, sends, faults>>

\* Mutant: a card whose answer was lost is sent again as text.
BrokenFallsBack ==
    /\ pc \in Remote
    /\ IF pc = "post" /\ form = "interactive"
       THEN /\ Ask("post", RequestTimeout) /\ form' = "text"
            /\ UNCHANGED <<turn, ends, ok, taken>>
       ELSE Fails
    /\ UNCHANGED <<now, config, shown, token, tokenTo, msg, acked, reached, cut, sends, faults>>

\* No answer, or none that can be read: whether it landed stays unknown, and
\* nothing else is tried.
Broken ==
    /\ pc \in Remote
    /\ Fails
    /\ UNCHANGED <<now, config, shown, token, tokenTo, msg, acked, reached, cut, sends, faults>>
-----------------------------------------------------------------------------
\* FileDrop.Send: latest.md, latest.json, the line in the day's log.  The first
\* failure ends it and leaves the files already written.
WriteLatest ==
    /\ At("drop") \/ pc = "json"
    /\ pc' = IF pc = "turn" THEN "json" ELSE "log"
    /\ UNCHANGED <<now, config, turn, call, ok, token, tokenTo, msg, acked, history, sends, faults>>

AppendLine ==
    /\ pc = "log"
    /\ Accepts /\ Reaches
    /\ UNCHANGED <<now, config, shown, token, tokenTo, msg, acked, cut, sends, faults>>

WriteFails ==
    /\ At("drop") \/ pc \in {"json", "log"} \/ At("console")
    /\ Fails
    /\ UNCHANGED <<now, config, shown, token, tokenTo, msg, acked, reached, cut, sends, faults>>

PrintPlain ==
    /\ At("console")
    /\ Accepts /\ Reaches
    /\ UNCHANGED <<now, config, shown, token, tokenTo, msg, acked, cut, sends, faults>>
-----------------------------------------------------------------------------
\* Time passes between sends and while a call is under way, and no call outlives
\* its timeout.
Tick ==
    /\ now < MaxTime
    /\ pc = "idle" \/ (pc \in Remote /\ now < until)
    /\ now' = now + 1
    /\ UNCHANGED <<config, pc, turn, call, ok, token, tokenTo, msg, acked, history, sends, faults>>

\* The server forgets a token before its time (the secret was rotated).
Revoke ==
    /\ token.alive /\ faults < MaxFaults
    /\ token' = [token EXCEPT !.alive = FALSE] /\ faults' = faults + 1
    /\ UNCHANGED <<now, config, pc, turn, call, ok, tokenTo, msg, acked, history, sends>>

\* The process dies; the next one has no token, and its caller, which recorded
\* nothing, hands the message over again.
Crash ==
    /\ pc # "idle" /\ faults < MaxFaults
    /\ pc' = "idle" /\ token' = NoToken /\ tokenTo' = 0
    /\ turn' = 1 /\ ends' = 0 /\ until' = 0 /\ landed' = FALSE /\ form' = "interactive"
    /\ shown' = {} /\ ok' = FALSE
    /\ cut' = [cut EXCEPT ![msg] = @ + 1] /\ faults' = faults + 1
    /\ UNCHANGED <<now, config, msg, acked, reached, taken, sends>>

Next ==
    \/ Send \/ Return
    \/ NoRoute \/ SendWebhook \/ SendApp \/ RunRelay
    \/ Granted \/ Land \/ Success \/ Refused \/ Broken
    \/ WriteLatest \/ AppendLine \/ WriteFails \/ PrintPlain
    \/ Tick \/ Revoke \/ Crash

Spec == Init /\ [][Next]_vars
-----------------------------------------------------------------------------
\* A message that Send reported as delivered is with a reader: in the chat, the
\* day's log or the console.  No transport error, refusal, missing message id or
\* half-written drop counts as a delivery (notify.go:93-113).
AckedMeansReached ==
    \A m \in acked : \E b \in Backends : reached[b][m] > 0

\* "A broken secondary channel cannot make the same message go out twice"
\* (notify.go:81-86): a backend that accepted a message is not given it again,
\* whatever the others did, unless the process died before Send returned.
AcceptedOnce ==
    \A b \in Backends, m \in Messages : taken[b][m] <= 1 + cut[m]

\* One send puts a finding into the chat in one form at most: the text goes out
\* only when the card was refused, never when its fate is unknown
\* (feishu.go:366-389).
OneFormPerSend == Cardinality(shown) <= 1

\* Every post of a send that started on a kept token reaches the server before
\* the token runs out there, however slow the mint's reply and the posts were:
\* the margin covers both (feishu.go:431-439).  A lifetime within the margin is
\* exempt: the code then keeps the token to its end.
TokenOutlivesTheSend ==
    pc = "post" /\ ~token.short => now < token.till
=============================================================================
