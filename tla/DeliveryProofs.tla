--------------------------- MODULE DeliveryProofs ---------------------------
(***************************************************************************)
(* Proofs about Delivery, for every configuration, every number of         *)
(* messages and every choice of timeouts within the module's assumptions:  *)
(* acknowledged means delivered, a backend is not given a message again it *)
(* has accepted, a send shows one form, a kept token outlives a send, and  *)
(* the state keeps its type.                                               *)
(*                                                                         *)
(* The first three rest on the order in which FanOut.Send walks through    *)
(* its backends, each of which is wired once.                              *)
(***************************************************************************)
EXTENDS Delivery, SequenceTheorems, FiniteSetTheorems, TLAPS

-----------------------------------------------------------------------------
(***************************************************************************)
(* The list of backends                                                    *)
(***************************************************************************)
Distinct(s) == \A i, j \in 1..Len(s) : s[i] = s[j] => i = j

\* Lists of different backends can be joined.
LEMMA JoinDistinct ==
    ASSUME NEW A, NEW B, A \intersect B = {},
           NEW s \in Seq(A), NEW t \in Seq(B), Distinct(s), Distinct(t)
    PROVE  s \o t \in Seq(A \union B) /\ Distinct(s \o t)
<1> DEFINE C == A \union B
<1>1. s \in Seq(C) /\ t \in Seq(C)
    BY SeqMonotonic
<1>2. /\ s \o t \in Seq(C) /\ Len(s \o t) = Len(s) + Len(t)
      /\ \A i \in 1..(Len(s) + Len(t)) : (s \o t)[i] = IF i <= Len(s) THEN s[i] ELSE t[i - Len(s)]
    BY <1>1, ConcatProperties
<1>3. Len(s) \in Nat /\ Len(t) \in Nat
    BY LenProperties
<1>4. (\A i \in 1..Len(s) : s[i] \in A) /\ (\A i \in 1..Len(t) : t[i] \in B)
    BY ElementOfSeq
<1>5. ASSUME NEW i \in 1..Len(s \o t), NEW j \in 1..Len(s \o t), (s \o t)[i] = (s \o t)[j]
      PROVE  i = j
    <2>1. CASE i <= Len(s) /\ j <= Len(s)
        <3>1. i \in 1..Len(s) /\ j \in 1..Len(s) /\ s[i] = s[j]
            BY <1>2, <1>3, <1>5, <2>1
        <3>2. QED
            BY <3>1 DEF Distinct
    <2>2. CASE i > Len(s) /\ j > Len(s)
        <3>1. i - Len(s) \in 1..Len(t) /\ j - Len(s) \in 1..Len(t)
              /\ t[i - Len(s)] = t[j - Len(s)]
            BY <1>2, <1>3, <1>5, <2>2
        <3>2. i - Len(s) = j - Len(s)
            BY <3>1 DEF Distinct
        <3>3. QED
            BY <1>2, <1>3, <3>2
    <2>3. CASE i <= Len(s) /\ j > Len(s)
        <3>1. s[i] \in A /\ t[j - Len(s)] \in B /\ s[i] = t[j - Len(s)]
            BY <1>2, <1>3, <1>4, <1>5, <2>3
        <3>2. QED
            BY <3>1
    <2>4. CASE i > Len(s) /\ j <= Len(s)
        <3>1. s[j] \in A /\ t[i - Len(s)] \in B /\ s[j] = t[i - Len(s)]
            BY <1>2, <1>3, <1>4, <1>5, <2>4
        <3>2. QED
            BY <3>1
    <2>5. QED
        BY <1>2, <1>3, <2>1, <2>2, <2>3, <2>4
<1>6. QED
    BY <1>2, <1>5 DEF Distinct

LEMMA IfType ==
    ASSUME NEW c, NEW b
    PROVE  If(c, b) \in Seq({b}) /\ Distinct(If(c, b))
<1>1. <<b>> \in Seq({b}) /\ <<>> \in Seq({b}) /\ Len(<<b>>) = 1 /\ Len(<<>>) = 0
    OBVIOUS
<1>2. Distinct(<<b>>) /\ Distinct(<<>>)
    BY <1>1 DEF Distinct
<1>3. QED
    BY <1>1, <1>2 DEF If

\* Every backend is wired once.
LEMMA ItemsDistinct == Items \in Seq(Backends) /\ Distinct(Items)
<1> DEFINE f == If(config.feishu, "feishu")
           d == If(config.drop, "drop")
           r == If(config.drop /\ config.relay, "relay")
           c == If(config.console, "console")
<1>1. /\ f \in Seq({"feishu"}) /\ Distinct(f) /\ d \in Seq({"drop"}) /\ Distinct(d)
      /\ r \in Seq({"relay"}) /\ Distinct(r) /\ c \in Seq({"console"}) /\ Distinct(c)
    BY IfType
<1> HIDE DEF f, d, r, c
<1>2. f \o d \in Seq({"feishu"} \union {"drop"}) /\ Distinct(f \o d)
    <2>1. {"feishu"} \intersect {"drop"} = {}
        OBVIOUS
    <2>2. QED
        BY <1>1, <2>1, JoinDistinct
<1>3. /\ (f \o d) \o r \in Seq({"feishu"} \union {"drop"} \union {"relay"})
      /\ Distinct((f \o d) \o r)
    <2>1. ({"feishu"} \union {"drop"}) \intersect {"relay"} = {}
        OBVIOUS
    <2>2. QED
        BY <1>1, <1>2, <2>1, JoinDistinct
<1>4. /\ ((f \o d) \o r) \o c \in Seq({"feishu"} \union {"drop"} \union {"relay"} \union {"console"})
      /\ Distinct(((f \o d) \o r) \o c)
    <2>1. ({"feishu"} \union {"drop"} \union {"relay"}) \intersect {"console"} = {}
        OBVIOUS
    <2>2. QED
        BY <1>1, <1>3, <2>1, JoinDistinct
<1>5. {"feishu"} \union {"drop"} \union {"relay"} \union {"console"} = Backends
    BY DEF Backends
<1>6. Items = ((f \o d) \o r) \o c
    BY DEF Items, f, d, r, c
<1>7. QED
    BY <1>4, <1>5, <1>6

LEMMA ItemsProperties ==
    /\ Len(Items) \in Nat
    /\ \A i \in 1..Len(Items) : Items[i] \in Backends
    /\ \A i, j \in 1..Len(Items) : Items[i] = Items[j] => i = j
BY ItemsDistinct, LenProperties, ElementOfSeq DEF Distinct
-----------------------------------------------------------------------------
(***************************************************************************)
(* The walk through the backends                                           *)
(***************************************************************************)
Walking == {"turn", "json", "log"} \union Remote

WalkInv ==
    /\ pc \in {"idle", "done"} \union Walking
    /\ turn \in 1..Len(Items)
    /\ pc \in {"auth", "hook", "post"} => Items[turn] = "feishu"
    /\ ok \in BOOLEAN /\ (pc = "idle" => ~ok)
    /\ msg \in 1..(MaxMessages + 1) /\ (pc # "idle" => msg \in Messages)
    /\ acked \subseteq 1..(msg - 1)
    /\ reached \in [Backends -> [Messages -> Nat]] /\ taken \in [Backends -> [Messages -> Nat]]
    /\ cut \in [Messages -> Nat]

LEMMA ConfigStays == [Next]_vars => Items' = Items
<1> SUFFICES ASSUME [Next]_vars PROVE config' = config
    BY DEF Items
<1>1. QED
    BY DEF Next, vars, Send, Return, NoRoute, SendWebhook, SendApp, RunRelay, Granted, Land,
           Success, Refused, Broken, WriteLatest, AppendLine, WriteFails, PrintPlain, Tick,
           Revoke, Crash

\* One more for the backend that has the message.
LEMMA CountType ==
    ASSUME NEW f \in [Backends -> [Messages -> Nat]], NEW b \in Backends, NEW m \in Messages
    PROVE  /\ [f EXCEPT ![b][m] = @ + 1] \in [Backends -> [Messages -> Nat]]
           /\ [f EXCEPT ![b][m] = @ + 1][b][m] = f[b][m] + 1
           /\ \A c \in Backends, n \in Messages :
                 c # b \/ n # m => [f EXCEPT ![b][m] = @ + 1][c][n] = f[c][n]
OBVIOUS

LEMMA WalkInit == Init => WalkInv
<1> SUFFICES ASSUME Init PROVE WalkInv
    OBVIOUS
<1>1. Len(Items) \in Nat /\ Len(Items) # 0
    <2>1. Items # <<>>
        BY DEF Init
    <2>2. QED
        BY <2>1, ItemsDistinct, EmptySeq
<1>2. MaxMessages \in Nat
    BY DeliveryAssumption
<1>3. turn \in 1..Len(Items) /\ msg \in 1..(MaxMessages + 1) /\ acked \subseteq 1..(msg - 1)
    BY <1>1, <1>2 DEF Init
<1>4. /\ reached \in [Backends -> [Messages -> Nat]] /\ taken \in [Backends -> [Messages -> Nat]]
      /\ cut \in [Messages -> Nat]
    BY DEF Init
<1>5. QED
    BY <1>3, <1>4 DEF Init, WalkInv

\* Going on, with the message refused or accepted.
LEMMA ContinueStep ==
    ASSUME WalkInv, pc \in Walking, Continue, Items' = Items, UNCHANGED <<msg, acked, cut>>,
           reached' \in [Backends -> [Messages -> Nat]],
           taken' \in [Backends -> [Messages -> Nat]], ok' \in BOOLEAN
    PROVE  WalkInv'
<1>1. Len(Items) \in Nat
    BY ItemsProperties
<1>2. turn' \in 1..Len(Items) /\ pc' \in {"turn", "done"}
    BY <1>1 DEF WalkInv, Continue
<1>3. pc # "idle"
    BY DEF Walking, Remote
<1>4. QED
    BY <1>2, <1>3 DEF WalkInv, Walking

\* A step within a turn, which counts nothing or one arrival.
LEMMA WithinStep ==
    ASSUME WalkInv, pc \in Walking, Items' = Items, pc' \in Walking,
           pc' \in {"auth", "hook", "post"} => Items[turn] = "feishu",
           UNCHANGED <<turn, ok, msg, acked, taken, cut>>,
           reached' \in [Backends -> [Messages -> Nat]]
    PROVE  WalkInv'
BY DEF WalkInv, Walking, Remote

LEMMA WalkStep == WalkInv /\ [Next]_vars => WalkInv'
<1> SUFFICES ASSUME WalkInv, [Next]_vars PROVE WalkInv'
    OBVIOUS
<1>0. /\ Items' = Items /\ MaxMessages \in Nat /\ Len(Items) \in Nat /\ 1 \in 1..Len(Items)
      /\ Items[turn] \in Backends /\ turn \in 1..Len(Items)
    BY ConfigStays, ItemsProperties, DeliveryAssumption DEF WalkInv
<1>1. CASE Send
    BY <1>0, <1>1 DEF Send, history, WalkInv, Walking
<1>2. CASE Return
    <2>1. pc = "done" /\ pc' = "idle" /\ msg \in Messages /\ ok' = FALSE /\ msg' \in {msg, msg + 1}
          /\ acked' = acked \union (IF ok THEN {msg} ELSE {}) /\ (ok => msg' = msg + 1)
          /\ UNCHANGED <<turn, reached, taken, cut>>
        BY <1>2 DEF Return, Answered, history, WalkInv
    <2>2. msg \in 1..MaxMessages /\ acked \subseteq 1..(msg - 1)
        BY <2>1 DEF Messages, WalkInv
    <2>3. msg' \in 1..(MaxMessages + 1)
        BY <1>0, <2>1, <2>2
    <2>4. acked' \subseteq 1..(msg' - 1)
        <3> SUFFICES ASSUME NEW m \in acked' PROVE m \in 1..(msg' - 1)
            OBVIOUS
        <3>1. CASE m \in acked
            <4>1. m \in 1..(msg - 1) /\ msg \in Nat
                BY <1>0, <2>2, <3>1
            <4>2. CASE msg' = msg
                BY <4>1, <4>2
            <4>3. CASE msg' = msg + 1
                BY <4>1, <4>3
            <4>4. QED
                BY <2>1, <4>2, <4>3
        <3>2. CASE m = msg /\ msg' = msg + 1
            BY <1>0, <2>2, <3>2
        <3>3. QED
            BY <2>1, <3>1, <3>2
    <2>5. QED
        BY <1>0, <2>1, <2>3, <2>4 DEF WalkInv
<1>3. CASE NoRoute \/ Broken \/ WriteFails
    <2>1. pc \in Walking
        BY <1>3 DEF NoRoute, Broken, WriteFails, At, Walking
    <2>2. Continue /\ UNCHANGED <<msg, acked, cut, reached, taken, ok>>
        BY <1>3 DEF NoRoute, Broken, WriteFails, Fails
    <2>3. QED
        BY <1>0, <2>1, <2>2, ContinueStep DEF WalkInv
<1>4. CASE Success
    <2>1. pc \in Walking /\ msg \in Messages
        BY <1>4 DEF Success, Walking, Remote, WalkInv
    <2>2. taken' \in [Backends -> [Messages -> Nat]]
        BY <1>0, <1>4, <2>1, CountType DEF Success, Accepts, WalkInv
    <2>3. QED
        BY <1>0, <1>4, <2>1, <2>2, ContinueStep DEF Success, Accepts, WalkInv
<1>5. CASE AppendLine \/ PrintPlain
    <2>1. pc \in Walking /\ msg \in Messages
        BY <1>5 DEF AppendLine, PrintPlain, At, Walking, WalkInv
    <2>2. Accepts /\ Reaches /\ UNCHANGED <<msg, acked, cut>>
        BY <1>5 DEF AppendLine, PrintPlain
    <2>3. /\ taken' \in [Backends -> [Messages -> Nat]]
          /\ reached' \in [Backends -> [Messages -> Nat]]
        BY <1>0, <2>1, <2>2, CountType DEF Accepts, Reaches, WalkInv
    <2>4. QED
        BY <1>0, <2>1, <2>2, <2>3, ContinueStep DEF Accepts
<1>6. CASE SendWebhook \/ SendApp \/ RunRelay \/ WriteLatest
    <2>1. pc \in Walking /\ pc' \in Walking
        BY <1>6 DEF SendWebhook, SendApp, RunRelay, WriteLatest, Ask, At, Walking, Remote
    <2>2. pc' \in {"auth", "hook", "post"} => Items[turn] = "feishu"
        BY <1>6 DEF SendWebhook, SendApp, RunRelay, WriteLatest, Ask, At
    <2>3. UNCHANGED <<turn, ok, msg, acked, taken, cut, reached>>
        BY <1>6 DEF SendWebhook, SendApp, RunRelay, WriteLatest, history
    <2>4. QED
        BY <1>0, <2>1, <2>2, <2>3, WithinStep DEF WalkInv
<1>7. CASE Granted
    <2>1. pc = "auth" /\ pc' = "post" /\ UNCHANGED <<turn, ok, msg, acked, taken, cut, reached>>
        BY <1>7 DEF Granted, Ask, history
    <2>2. QED
        BY <1>0, <2>1, WithinStep DEF WalkInv, Walking, Remote
<1>8. CASE Land
    <2>1. pc \in Walking /\ pc' = pc /\ msg \in Messages
          /\ UNCHANGED <<turn, ok, msg, acked, taken, cut>>
        BY <1>8 DEF Land, Walking, Remote, WalkInv
    <2>2. reached' \in [Backends -> [Messages -> Nat]]
        BY <1>0, <1>8, <2>1, CountType DEF Land, Reaches, WalkInv
    <2>3. QED
        BY <1>0, <2>1, <2>2, WithinStep DEF WalkInv
<1>9. CASE Refused
    <2>1. pc \in Walking /\ UNCHANGED <<msg, acked, cut, reached>>
        BY <1>9 DEF Refused, Walking
    <2>2. CASE pc = "post" /\ form = "interactive"
        <3>1. pc' = "post" /\ UNCHANGED <<turn, ok, taken>>
            BY <1>9, <2>2 DEF Refused, Ask
        <3>2. QED
            BY <1>0, <2>1, <2>2, <3>1, WithinStep DEF WalkInv
    <2>3. CASE ~(pc = "post" /\ form = "interactive")
        BY <1>0, <1>9, <2>1, <2>3, ContinueStep DEF Refused, Fails, WalkInv
    <2>4. QED
        BY <2>2, <2>3
<1>10. CASE Tick \/ Revoke \/ UNCHANGED vars
    <2>1. UNCHANGED <<pc, turn, ok, msg, acked, reached, taken, cut>>
        BY <1>10 DEF Tick, Revoke, vars, history
    <2>2. QED
        BY <1>0, <2>1 DEF WalkInv
<1>11. CASE Crash
    <2>1. msg \in Messages /\ pc' = "idle" /\ turn' = 1 /\ ok' = FALSE
          /\ UNCHANGED <<msg, acked, reached, taken>>
        BY <1>11 DEF Crash, WalkInv
    <2>2. cut' \in [Messages -> Nat]
        BY <1>11 DEF Crash, WalkInv
    <2>3. QED
        BY <1>0, <2>1, <2>2 DEF WalkInv
<1>12. QED
    BY <1>1, <1>2, <1>3, <1>4, <1>5, <1>6, <1>7, <1>8, <1>9, <1>10, <1>11 DEF Next

LEMMA WalkAlways == Spec => []WalkInv
BY WalkInit, WalkStep, PTL DEF Spec
-----------------------------------------------------------------------------
(***************************************************************************)
(* Acknowledged means delivered                                            *)
(***************************************************************************)

\* A backend accepts only what has landed, and what has landed has a reader.
DeliveredInv ==
    /\ pc \in Remote /\ landed => reached[Items[turn]][msg] > 0
    /\ ok => \E b \in Backends : reached[b][msg] > 0
    /\ AckedMeansReached

\* Deliveries are never taken back; what Reaches counts is a delivery.
LEMMA ReachedGrows ==
    ASSUME WalkInv, [Next]_vars
    PROVE  \A b \in Backends, m \in Messages : reached'[b][m] >= reached[b][m]
<1>1. CASE Land \/ AppendLine \/ PrintPlain
    <2>1. Reaches /\ pc # "idle" /\ msg \in Messages /\ Items[turn] \in Backends
        BY <1>1, ItemsProperties DEF Land, AppendLine, PrintPlain, At, WalkInv
    <2>2. \A b \in Backends, m \in Messages : reached[b][m] \in Nat
        BY DEF WalkInv
    <2>3. \A b \in Backends, m \in Messages :
             reached'[b][m] = reached[b][m] \/ reached'[b][m] = reached[b][m] + 1
        BY <2>1, CountType DEF Reaches, WalkInv
    <2>4. QED
        BY <2>2, <2>3
<1>2. CASE UNCHANGED reached
    BY <1>2 DEF WalkInv
<1>3. QED
    BY <1>1, <1>2 DEF Next, vars, history, Send, Return, NoRoute, SendWebhook, SendApp, RunRelay,
           Granted, Success, Refused, Broken, WriteLatest, WriteFails, Tick, Revoke, Crash

LEMMA DeliveredInit == Init => DeliveredInv
BY DEF Init, DeliveredInv, AckedMeansReached, Remote

LEMMA DeliveredStep == WalkInv /\ DeliveredInv /\ [Next]_vars => DeliveredInv'
<1> SUFFICES ASSUME WalkInv, DeliveredInv, [Next]_vars PROVE DeliveredInv'
    OBVIOUS
<1>0. /\ Items' = Items /\ Items[turn] \in Backends
      /\ \A b \in Backends, m \in Messages :
            reached[b][m] \in Nat /\ reached'[b][m] \in Nat /\ reached'[b][m] >= reached[b][m]
    <2>1. WalkInv'
        BY WalkStep
    <2>2. /\ reached \in [Backends -> [Messages -> Nat]]
          /\ reached' \in [Backends -> [Messages -> Nat]]
        BY <2>1 DEF WalkInv
    <2>3. QED
        BY <2>2, ConfigStays, ItemsProperties, ReachedGrows DEF WalkInv
<1>a. \A m \in Messages :
          (\E b \in Backends : reached[b][m] > 0) => \E b \in Backends : reached'[b][m] > 0
    BY <1>0
<1>b. acked' = acked => AckedMeansReached'
    <2>1. acked \subseteq Messages
        BY DeliveryAssumption DEF WalkInv, Messages
    <2>2. QED
        BY <1>a, <2>1 DEF DeliveredInv, AckedMeansReached
<1>1. CASE Send
    BY <1>1, <1>b DEF Send, DeliveredInv, Remote
<1>2. CASE Return
    <2>1. pc = "done" /\ pc' = "idle" /\ msg \in Messages /\ ok' = FALSE
          /\ acked' = acked \union (IF ok THEN {msg} ELSE {}) /\ reached' = reached
        BY <1>2 DEF Return, Answered, history, WalkInv
    <2>2. QED
        BY <2>1 DEF DeliveredInv, AckedMeansReached, Remote
<1>3. CASE NoRoute \/ Broken \/ WriteFails
    <2>1. Continue /\ UNCHANGED <<msg, acked, reached, ok>>
        BY <1>3 DEF NoRoute, Broken, WriteFails, Fails
    <2>2. pc' \notin Remote
        BY <2>1 DEF Continue, Remote
    <2>3. QED
        BY <1>b, <2>1, <2>2 DEF DeliveredInv
<1>4. CASE Success
    <2>1. /\ reached[Items[turn]][msg] > 0 /\ UNCHANGED <<msg, acked, reached>>
          /\ pc' \notin Remote
        BY <1>4 DEF Success, Accepts, Continue, Remote, DeliveredInv
    <2>2. QED
        BY <1>0, <1>b, <2>1 DEF DeliveredInv
<1>5. CASE AppendLine \/ PrintPlain
    <2>1. Accepts /\ Reaches /\ UNCHANGED <<msg, acked>> /\ msg \in Messages
        BY <1>5 DEF AppendLine, PrintPlain, At, WalkInv
    <2>2. reached'[Items[turn]][msg] = reached[Items[turn]][msg] + 1
        BY <1>0, <2>1, CountType DEF Reaches, WalkInv
    <2>3. pc' \notin Remote /\ reached'[Items[turn]][msg] > 0
        BY <1>0, <2>1, <2>2 DEF Accepts, Continue, Remote
    <2>4. QED
        BY <1>0, <1>b, <2>1, <2>3 DEF DeliveredInv
<1>6. CASE SendWebhook \/ SendApp \/ RunRelay \/ WriteLatest \/ Granted
    <2>1. pc' \in Remote => landed' = FALSE
        BY <1>6 DEF SendWebhook, SendApp, RunRelay, WriteLatest, Granted, Ask, Remote
    <2>2. UNCHANGED <<ok, msg, acked, reached>>
        BY <1>6 DEF SendWebhook, SendApp, RunRelay, WriteLatest, Granted, history
    <2>3. QED
        BY <1>b, <2>1, <2>2 DEF DeliveredInv
<1>7. CASE Land
    <2>1. Reaches /\ UNCHANGED <<pc, turn, ok, msg, acked>> /\ msg \in Messages
        BY <1>7 DEF Land, WalkInv
    <2>2. reached'[Items[turn]][msg] = reached[Items[turn]][msg] + 1
        BY <1>0, <2>1, CountType DEF Reaches, WalkInv
    <2>3. reached'[Items[turn]][msg] > 0
        BY <1>0, <2>1, <2>2
    <2>4. QED
        BY <1>0, <1>b, <2>1, <2>3 DEF DeliveredInv
<1>8. CASE Refused
    <2>1. pc' \in Remote => landed' = FALSE
        BY <1>8 DEF Refused, Ask, Fails, Continue, Remote
    <2>2. UNCHANGED <<ok, msg, acked, reached>>
        BY <1>8 DEF Refused, Fails
    <2>3. QED
        BY <1>b, <2>1, <2>2 DEF DeliveredInv
<1>9. CASE Tick \/ Revoke \/ UNCHANGED vars
    <2>1. UNCHANGED <<pc, turn, landed, ok, msg, acked, reached>>
        BY <1>9 DEF Tick, Revoke, vars, call, history
    <2>2. QED
        BY <1>0, <1>b, <2>1 DEF DeliveredInv
<1>10. CASE Crash
    BY <1>10, <1>b DEF Crash, DeliveredInv, Remote
<1>11. QED
    BY <1>1, <1>2, <1>3, <1>4, <1>5, <1>6, <1>7, <1>8, <1>9, <1>10 DEF Next

\* What Send reports as delivered has a reader: an error, a refusal or a lost
\* answer never counts as a delivery.
THEOREM AcknowledgedIsDelivered == Spec => []AckedMeansReached
<1>1. DeliveredInv => AckedMeansReached
    BY DEF DeliveredInv
<1>2. QED
    BY <1>1, WalkInit, WalkStep, DeliveredInit, DeliveredStep, PTL DEF Spec
-----------------------------------------------------------------------------
(***************************************************************************)
(* A backend is not given again what it accepted                           *)
(***************************************************************************)

\* The send has been past this backend.
Passed(b) == pc = "done" \/ \E i \in 1..(turn - 1) : Items[i] = b

\* A message is handed over again only when nobody accepted it, or by the next
\* process: until it is acknowledged, each acceptance was followed by a crash,
\* but for one of this send.
AcceptInv ==
    \A b \in Backends, m \in Messages :
        /\ m < msg => taken[b][m] <= 1 + cut[m]
        /\ m = msg => taken[b][m] <= cut[m] + (IF ok /\ Passed(b) THEN 1 ELSE 0)
        /\ m > msg => taken[b][m] = 0

LEMMA AcceptInit == Init => AcceptInv
<1> SUFFICES ASSUME Init PROVE AcceptInv
    OBVIOUS
<1>1. \A b \in Backends, m \in Messages : taken[b][m] = 0 /\ cut[m] = 0
    BY DEF Init
<1>2. QED
    BY <1>1 DEF AcceptInv

LEMMA AcceptImplies == WalkInv /\ AcceptInv => AcceptedOnce
<1> SUFFICES ASSUME WalkInv, AcceptInv, NEW b \in Backends, NEW m \in Messages
             PROVE  taken[b][m] <= 1 + cut[m]
    BY DEF AcceptedOnce
<1>1. taken[b][m] \in Nat /\ cut[m] \in Nat /\ m \in Nat /\ msg \in Nat
    BY DeliveryAssumption DEF WalkInv, Messages
<1>2. QED
    BY <1>1 DEF AcceptInv

\* The backend that has the message has not been passed; going on passes it and
\* takes nothing back.
LEMMA PassedOnContinue ==
    ASSUME WalkInv, pc \in Walking, Continue, Items' = Items
    PROVE  \A b \in Backends : /\ b = Items[turn] => ~Passed(b) /\ Passed(b)'
                               /\ Passed(b) => Passed(b)'
<1>1. turn \in 1..Len(Items) /\ Len(Items) \in Nat /\ pc # "done"
    BY ItemsProperties DEF WalkInv, Walking, Remote
<1>2. \A i \in 1..(turn - 1) : Items[i] # Items[turn]
    <2>1. \A i \in 1..(turn - 1) : i \in 1..Len(Items) /\ i # turn
        BY <1>1
    <2>2. QED
        BY <1>1, <2>1, ItemsProperties
<1>3. pc' = "done" \/ turn' = turn + 1
    BY DEF Continue
<1>4. turn' = turn + 1 => turn \in 1..(turn' - 1) /\ \A i \in 1..(turn - 1) : i \in 1..(turn' - 1)
    BY <1>1
<1>5. QED
    BY <1>1, <1>2, <1>3, <1>4 DEF Passed

LEMMA AcceptStep == WalkInv /\ AcceptInv /\ [Next]_vars => AcceptInv'
<1> SUFFICES ASSUME WalkInv, AcceptInv, [Next]_vars PROVE AcceptInv'
    OBVIOUS
<1>0. /\ Items' = Items /\ Items[turn] \in Backends
      /\ taken \in [Backends -> [Messages -> Nat]]
    BY ConfigStays, ItemsProperties DEF WalkInv
<1>n. /\ \A b \in Backends, m \in Messages : taken[b][m] \in Nat
      /\ \A m \in Messages : cut[m] \in Nat /\ m \in Nat
      /\ msg \in Nat /\ ok \in BOOLEAN
    <2>1. \A m \in Messages : m \in Nat
        BY DeliveryAssumption DEF Messages
    <2>2. msg \in Nat /\ ok \in BOOLEAN /\ \A m \in Messages : cut[m] \in Nat
        BY DeliveryAssumption DEF WalkInv
    <2>3. QED
        BY <1>0, <2>1, <2>2
<1>1. CASE Send
    <2>1. pc = "idle" /\ ~ok /\ UNCHANGED <<msg, taken, cut>> /\ ok' = FALSE
        BY <1>1 DEF Send, history, WalkInv
    <2>2. QED
        BY <2>1 DEF AcceptInv
<1>2. CASE Return
    <2>1. UNCHANGED <<taken, cut>> /\ ok' = FALSE
          /\ (msg' = msg + 1 \/ (~ok /\ msg' = msg))
        BY <1>2 DEF Return, Answered, history
    <2>2. \A b \in Backends, m \in Messages :
             /\ m <= msg => taken[b][m] <= 1 + cut[m]
             /\ m > msg => taken[b][m] = 0
        BY <1>n DEF AcceptInv
    <2>3. CASE msg' = msg + 1
        <3> SUFFICES ASSUME NEW b \in Backends, NEW m \in Messages
                     PROVE  /\ m < msg' => taken'[b][m] <= 1 + cut'[m]
                            /\ m = msg' => taken'[b][m] <= cut'[m] + 0
                            /\ m > msg' => taken'[b][m] = 0
            BY <2>1 DEF AcceptInv
        <3>1. QED
            BY <1>n, <2>1, <2>2, <2>3
    <2>4. CASE ~ok /\ msg' = msg
        BY <2>1, <2>4 DEF AcceptInv
    <2>5. QED
        BY <2>1, <2>3, <2>4
<1>3. CASE NoRoute \/ Broken \/ WriteFails \/ (Refused /\ ~(pc = "post" /\ form = "interactive"))
    <2>1. pc \in Walking
        BY <1>3 DEF NoRoute, Broken, WriteFails, Refused, At, Walking
    <2>2. Continue /\ UNCHANGED <<msg, cut, taken, ok>>
        BY <1>3 DEF NoRoute, Broken, WriteFails, Refused, Fails
    <2>3. \A b \in Backends : Passed(b) => Passed(b)'
        BY <1>0, <2>1, <2>2, PassedOnContinue
    <2>4. QED
        BY <1>n, <2>2, <2>3 DEF AcceptInv
<1>4. CASE Success \/ AppendLine \/ PrintPlain
    <2>1. pc \in Walking /\ msg \in Messages
        BY <1>4 DEF Success, AppendLine, PrintPlain, At, Walking, Remote, WalkInv
    <2>2. Accepts /\ UNCHANGED <<msg, cut>>
        BY <1>4 DEF Success, AppendLine, PrintPlain
    <2>3. \A b \in Backends : /\ b = Items[turn] => ~Passed(b) /\ Passed(b)'
                              /\ Passed(b) => Passed(b)'
        BY <1>0, <2>1, <2>2, PassedOnContinue DEF Accepts
    <2>4. taken' = [taken EXCEPT ![Items[turn]][msg] = @ + 1] /\ ok' = TRUE
        BY <2>2 DEF Accepts
    <2>5. /\ taken'[Items[turn]][msg] = taken[Items[turn]][msg] + 1
          /\ \A b \in Backends, m \in Messages :
                b # Items[turn] \/ m # msg => taken'[b][m] = taken[b][m]
        BY <1>0, <2>1, <2>4, CountType
    <2>6. taken[Items[turn]][msg] <= cut[msg]
        BY <1>0, <1>n, <2>1, <2>3 DEF AcceptInv
    <2>7. taken'[Items[turn]][msg] <= cut[msg] + 1
        BY <1>0, <1>n, <2>1, <2>5, <2>6
    <2> SUFFICES ASSUME NEW b \in Backends, NEW m \in Messages
                 PROVE  /\ m < msg => taken'[b][m] <= 1 + cut[m]
                        /\ m = msg => taken'[b][m] <= cut[m] + (IF Passed(b)' THEN 1 ELSE 0)
                        /\ m > msg => taken'[b][m] = 0
        BY <2>2, <2>4 DEF AcceptInv
    <2>8. CASE b = Items[turn] /\ m = msg
        BY <1>n, <2>3, <2>7, <2>8
    <2>9. CASE b # Items[turn] \/ m # msg
        BY <1>n, <2>3, <2>5, <2>9 DEF AcceptInv
    <2>10. QED
        BY <2>8, <2>9
<1>5. CASE \/ SendWebhook \/ SendApp \/ RunRelay \/ WriteLatest \/ Granted \/ Land
           \/ (Refused /\ pc = "post" /\ form = "interactive")
    <2>1. UNCHANGED <<turn, ok, msg, taken, cut>> /\ pc # "done" /\ pc' # "done"
        BY <1>5 DEF SendWebhook, SendApp, RunRelay, WriteLatest, Granted, Land, Refused, At, Ask,
                    history
    <2>2. QED
        BY <1>0, <2>1 DEF AcceptInv, Passed
<1>6. CASE Tick \/ Revoke \/ UNCHANGED vars
    <2>1. UNCHANGED <<pc, turn, ok, msg, taken, cut>>
        BY <1>6 DEF Tick, Revoke, vars, history
    <2>2. QED
        BY <1>0, <2>1 DEF AcceptInv, Passed
<1>7. CASE Crash
    <2>1. UNCHANGED <<msg, taken>> /\ ok' = FALSE /\ msg \in Messages
          /\ cut' = [cut EXCEPT ![msg] = @ + 1]
        BY <1>7 DEF Crash, WalkInv
    <2>2. cut'[msg] = cut[msg] + 1 /\ \A m \in Messages \ {msg} : cut'[m] = cut[m]
        BY <2>1 DEF WalkInv
    <2> SUFFICES ASSUME NEW b \in Backends, NEW m \in Messages
                 PROVE  /\ m < msg => taken[b][m] <= 1 + cut'[m]
                        /\ m = msg => taken[b][m] <= cut'[m] + 0
                        /\ m > msg => taken[b][m] = 0
        BY <2>1 DEF AcceptInv
    <2>3. QED
        BY <1>n, <2>1, <2>2 DEF AcceptInv
<1>8. QED
    BY <1>1, <1>2, <1>3, <1>4, <1>5, <1>6, <1>7 DEF Next

\* However the other backends fare and however often a failed message is handed
\* over again, one that accepted it gets it once more only after a crash.
THEOREM BackendsAcceptOnce == Spec => []AcceptedOnce
BY AcceptImplies, WalkInit, WalkStep, AcceptInit, AcceptStep, PTL DEF Spec
-----------------------------------------------------------------------------
(***************************************************************************)
(* One form per send                                                       *)
(***************************************************************************)

\* What this send put into the chat landed under the call at hand, or the chat's
\* turn is over.
FormInv ==
    /\ shown # {} => Passed("feishu") \/ (landed /\ pc \in {"hook", "post"})
    /\ pc = "idle" => shown = {}
    /\ \A x, y \in shown : x = y

LEMMA FormInit == Init => FormInv
BY DEF Init, FormInv

LEMMA FormImplies == FormInv => OneFormPerSend
<1> SUFFICES ASSUME FormInv PROVE Cardinality(shown) <= 1
    BY DEF OneFormPerSend
<1>1. CASE shown = {}
    BY <1>1, FS_EmptySet
<1>2. CASE shown # {}
    <2>1. PICK x \in shown : shown = {x}
        BY <1>2 DEF FormInv
    <2>2. QED
        BY <2>1, FS_Singleton
<1>3. QED
    BY <1>1, <1>2

\* While the chat has its turn, it has not been passed.
LEMMA ChatNotPassed ==
    ASSUME WalkInv, pc \in Walking, Items[turn] = "feishu"
    PROVE  ~Passed("feishu")
<1>1. turn \in 1..Len(Items) /\ Len(Items) \in Nat /\ pc # "done"
    BY ItemsProperties DEF WalkInv, Walking, Remote
<1>2. \A i \in 1..(turn - 1) : i \in 1..Len(Items) /\ i # turn
    BY <1>1
<1>3. QED
    BY <1>1, <1>2, ItemsProperties DEF Passed

LEMMA FormStep == WalkInv /\ FormInv /\ [Next]_vars => FormInv'
<1> SUFFICES ASSUME WalkInv, FormInv, [Next]_vars PROVE FormInv'
    OBVIOUS
<1>0. Items' = Items /\ "feishu" \in Backends
    BY ConfigStays DEF Backends
<1>1. CASE Send \/ Return \/ Crash
    BY <1>1 DEF Send, Return, Crash, FormInv
<1>2. CASE \/ NoRoute \/ Broken \/ WriteFails \/ Success \/ AppendLine \/ PrintPlain
           \/ (Refused /\ ~(pc = "post" /\ form = "interactive"))
    <2>1. pc \in Walking
        BY <1>2 DEF NoRoute, Broken, WriteFails, Success, AppendLine, PrintPlain, Refused, At,
                    Walking, Remote
    <2>2. Continue /\ shown' = shown
        BY <1>2 DEF NoRoute, Broken, WriteFails, Success, AppendLine, PrintPlain, Refused, Fails,
                    Accepts
    <2>3. Passed("feishu") \/ Items[turn] = "feishu" => Passed("feishu")'
        BY <1>0, <2>1, <2>2, PassedOnContinue
    <2>4. pc \in {"hook", "post"} => Items[turn] = "feishu"
        BY DEF WalkInv
    <2>5. pc' # "idle"
        BY <2>2 DEF Continue
    <2>6. QED
        BY <2>2, <2>3, <2>4, <2>5 DEF FormInv
<1>3. CASE SendWebhook \/ SendApp \/ RunRelay \/ WriteLatest
    <2>1. /\ UNCHANGED <<turn, shown>> /\ pc # "done" /\ pc' \notin {"done", "idle"}
          /\ pc \notin {"hook", "post"}
        BY <1>3 DEF SendWebhook, SendApp, RunRelay, WriteLatest, At, Ask, call
    <2>2. QED
        BY <1>0, <2>1 DEF FormInv, Passed
<1>4. CASE Granted \/ (Refused /\ pc = "post" /\ form = "interactive")
    <2>1. /\ UNCHANGED shown /\ pc' = "post"
          /\ pc \in {"auth", "post"} /\ (pc = "post" => ~landed)
        BY <1>4 DEF Granted, Refused, Ask
    <2>2. Items[turn] = "feishu" /\ pc \in Walking
        BY <2>1 DEF WalkInv, Walking, Remote
    <2>3. shown = {}
        BY <2>1, <2>2, ChatNotPassed DEF FormInv
    <2>4. QED
        BY <2>1, <2>3 DEF FormInv
<1>5. CASE Land
    <2>1. /\ UNCHANGED <<pc, turn>> /\ pc \in Walking /\ ~landed /\ landed' = TRUE
          /\ pc \in {"hook", "post", "relay"}
        BY <1>5 DEF Land, Walking, Remote
    <2>2. CASE pc = "relay"
        <3>1. shown' = shown
            BY <1>5, <2>2 DEF Land
        <3>2. QED
            BY <1>0, <2>1, <2>2, <3>1 DEF FormInv, Passed
    <2>3. CASE pc \in {"hook", "post"}
        <3>1. Items[turn] = "feishu"
            BY <2>3 DEF WalkInv
        <3>2. shown = {}
            BY <2>1, <3>1, ChatNotPassed DEF FormInv
        <3>3. \E x : shown' = {x}
            BY <1>5, <2>3, <3>2 DEF Land
        <3>4. QED
            BY <2>1, <2>3, <3>3 DEF FormInv
    <2>4. QED
        BY <2>1, <2>2, <2>3
<1>6. CASE Tick \/ Revoke \/ UNCHANGED vars
    <2>1. UNCHANGED <<pc, turn, landed, shown>>
        BY <1>6 DEF Tick, Revoke, vars, call
    <2>2. QED
        BY <1>0, <2>1 DEF FormInv, Passed
<1>7. QED
    BY <1>1, <1>2, <1>3, <1>4, <1>5, <1>6 DEF Next

\* One send puts a finding into the chat in one form: the text follows only a card
\* that was refused.
THEOREM SendsShowOneForm == Spec => []OneFormPerSend
BY FormImplies, WalkInit, WalkStep, FormInit, FormStep, PTL DEF Spec
-----------------------------------------------------------------------------
(***************************************************************************)
(* A kept token outlives the send                                          *)
(***************************************************************************)

LEMMA MinOfTwo ==
    ASSUME NEW a \in Int, NEW b \in Int
    PROVE  Min({a, b}) = IF a <= b THEN a ELSE b
<1> DEFINE m == IF a <= b THEN a ELSE b
<1>1. m \in {a, b} /\ \A y \in {a, b} : m <= y
    OBVIOUS
<1>2. \A x \in {a, b} : (\A y \in {a, b} : x <= y) => x = m
    OBVIOUS
<1>3. QED
    BY <1>1, <1>2 DEF Min

\* The context of a turn starts with it; a token under way leaves room for the
\* turn; a kept one is dropped a whole send before the server drops it, counting
\* the time its reply was on the road.
TokenInv ==
    /\ now \in Nat /\ ends \in Int /\ until \in Int /\ tokenTo \in Int
    /\ token \in [till : Int, short : BOOLEAN, alive : BOOLEAN]
    /\ pc = "turn" => ends = now + SendBudget
    /\ pc \in Remote => now <= until /\ until <= ends
    /\ pc = "auth" => ends <= until - RequestTimeout + SendBudget
    /\ token = NoToken \/ token.short \/ tokenTo + SendBudget <= token.till
    /\ pc = "post" => token.short \/ ends < token.till

LEMMA TokenInit == Init => TokenInv
BY DEF Init, TokenInv, NoToken, Remote

LEMMA TokenImplies == TokenInv => TokenOutlivesTheSend
BY DEF TokenInv, TokenOutlivesTheSend, Remote

\* A call ends by its own timeout and by the end of its turn.
LEMMA AskStep ==
    ASSUME TokenInv, now <= ends, NEW kind, NEW timeout \in Nat, Ask(kind, timeout)
    PROVE  /\ until' \in Int /\ now <= until' /\ until' <= ends
           /\ until' = now + timeout \/ until' = ends
<1>1. now + timeout \in Int /\ ends \in Int /\ now \in Nat
    BY DEF TokenInv
<1>2. until' = IF now + timeout <= ends THEN now + timeout ELSE ends
    BY <1>1, MinOfTwo DEF Ask
<1>3. QED
    BY <1>1, <1>2

LEMMA Timeouts ==
    /\ SendBudget \in Nat /\ RequestTimeout \in Nat /\ RelayTimeout \in Nat /\ DefaultLife \in Nat
    /\ Margin \in Nat /\ Margin >= SendBudget + RequestTimeout /\ RequestTimeout <= SendBudget
    /\ Lifetimes \subseteq Nat
BY DeliveryAssumption

LEMMA TokenStep == TokenInv /\ [Next]_vars => TokenInv'
<1> SUFFICES ASSUME TokenInv, [Next]_vars PROVE TokenInv'
    OBVIOUS
<1> USE Timeouts
<1>1. CASE Send
    BY <1>1 DEF Send, TokenInv, Remote
<1>2. CASE Return
    BY <1>2 DEF Return, TokenInv, Remote
<1>3. CASE \/ NoRoute \/ Broken \/ WriteFails \/ Success \/ AppendLine \/ PrintPlain
           \/ (Refused /\ ~(pc = "post" /\ form = "interactive"))
    <2>1. Continue /\ UNCHANGED <<now, token, tokenTo>>
        BY <1>3 DEF NoRoute, Broken, WriteFails, Success, AppendLine, PrintPlain, Refused, Fails,
                    Accepts
    <2>2. /\ \/ pc' = "turn" /\ ends' = now + SendBudget
             \/ pc' = "done" /\ ends' = 0
          /\ until' = 0
        BY <2>1 DEF Continue
    <2>3. QED
        BY <2>1, <2>2 DEF TokenInv, Remote
<1>4. CASE SendWebhook \/ RunRelay
    <2>1. /\ pc = "turn" /\ pc' \in {"hook", "relay"} /\ UNCHANGED <<now, ends, token, tokenTo>>
          /\ Ask("hook", RequestTimeout) \/ Ask("relay", RelayTimeout)
        BY <1>4 DEF SendWebhook, RunRelay, At, Ask
    <2>2. now <= ends
        BY <2>1 DEF TokenInv
    <2>3. until' \in Int /\ now <= until' /\ until' <= ends
        BY <2>1, <2>2, AskStep
    <2>4. QED
        BY <2>1, <2>3 DEF TokenInv, Remote
<1>5. CASE SendApp
    <2>1. pc = "turn" /\ UNCHANGED <<now, ends, token, tokenTo>> /\ ends = now + SendBudget
        BY <1>5 DEF SendApp, At, TokenInv
    <2>2. now <= ends /\ now \in Nat /\ ends \in Int
        BY <2>1 DEF TokenInv
    <2>3. CASE Cached
        <3>1. Ask("post", RequestTimeout) /\ pc' = "post"
            BY <1>5, <2>3 DEF SendApp, Ask
        <3>2. until' \in Int /\ now <= until' /\ until' <= ends
            BY <2>2, <3>1, AskStep
        <3>3. token.short \/ ends < token.till
            BY <2>1, <2>3 DEF Cached, TokenInv
        <3>4. QED
            BY <2>1, <3>1, <3>2, <3>3 DEF TokenInv, Remote
    <2>4. CASE ~Cached
        <3>1. Ask("auth", RequestTimeout) /\ pc' = "auth"
            BY <1>5, <2>4 DEF SendApp, Ask
        <3>2. /\ until' \in Int /\ now <= until' /\ until' <= ends
              /\ until' = now + RequestTimeout \/ until' = ends
            BY <2>2, <3>1, AskStep
        <3>3. ends <= until' - RequestTimeout + SendBudget
            <4>1. CASE until' = now + RequestTimeout
                BY <2>1, <2>2, <4>1
            <4>2. CASE until' = ends
                BY <2>2, <4>2
            <4>3. QED
                BY <3>2, <4>1, <4>2
        <3>4. QED
            BY <2>1, <3>1, <3>2, <3>3 DEF TokenInv, Remote
    <2>5. QED
        BY <2>3, <2>4
<1>6. CASE Granted
    <2>1. /\ pc = "auth" /\ pc' = "post" /\ UNCHANGED <<now, ends>> /\ Ask("post", RequestTimeout)
          /\ now <= until /\ until <= ends /\ ends <= until - RequestTimeout + SendBudget
        BY <1>6 DEF Granted, Ask, TokenInv, Remote
    <2>2. now \in Nat /\ until \in Int /\ ends \in Int /\ now <= ends
        BY <2>1 DEF TokenInv
    <2>3. until' \in Int /\ now <= until' /\ until' <= ends
        BY <2>1, <2>2, AskStep
    <2>4. PICK life \in Lifetimes, ago \in 0..RequestTimeout :
             /\ now - ago >= until - RequestTimeout
             /\ token' = [till |-> now - ago + LifeOf(life),
                          short |-> LifeOf(life) <= Margin, alive |-> TRUE]
             /\ tokenTo' = now + KeptFor(life)
        BY <1>6 DEF Granted
    <2>5. LifeOf(life) \in Nat /\ ago \in Nat /\ ago <= RequestTimeout
        BY DEF LifeOf
    <2>6. KeptFor(life) \in Int
        BY <2>5 DEF KeptFor
    <2>7. /\ token' \in [till : Int, short : BOOLEAN, alive : BOOLEAN] /\ tokenTo' \in Int
          /\ token'.short = (LifeOf(life) <= Margin)
        BY <2>2, <2>4, <2>5, <2>6
    <2>8. CASE LifeOf(life) > Margin
        <3>1. KeptFor(life) = LifeOf(life) - Margin
            BY <2>8 DEF KeptFor
        <3>2. token'.till = now - ago + LifeOf(life) /\ tokenTo' = now + (LifeOf(life) - Margin)
            BY <2>4, <3>1
        <3>3. tokenTo' + SendBudget <= token'.till
            BY <2>2, <2>5, <2>8, <3>2
        <3>4. ends < token'.till
            BY <2>1, <2>2, <2>4, <2>5, <2>8, <3>2
        <3>5. QED
            BY <2>1, <2>2, <2>3, <2>7, <3>3, <3>4 DEF TokenInv, Remote
    <2>9. CASE ~(LifeOf(life) > Margin)
        <3>1. token'.short
            BY <2>5, <2>7, <2>9
        <3>2. QED
            BY <2>1, <2>2, <2>3, <2>7, <3>1 DEF TokenInv, Remote
    <2>10. QED
        BY <2>8, <2>9
<1>7. CASE Land
    BY <1>7 DEF Land, TokenInv, Remote
<1>8. CASE Refused /\ pc = "post" /\ form = "interactive"
    <2>1. pc' = "post" /\ UNCHANGED <<now, ends, token, tokenTo>> /\ Ask("post", RequestTimeout)
        BY <1>8 DEF Refused, Ask
    <2>2. now <= ends
        BY <1>8 DEF TokenInv, Remote
    <2>3. until' \in Int /\ now <= until' /\ until' <= ends
        BY <2>1, <2>2, AskStep
    <2>4. QED
        BY <1>8, <2>1, <2>3 DEF TokenInv, Remote
<1>9. CASE WriteLatest
    BY <1>9 DEF WriteLatest, call, TokenInv, Remote, At
<1>10. CASE Tick
    <2>1. /\ now' = now + 1 /\ UNCHANGED <<pc, ends, until, token, tokenTo>>
          /\ pc = "idle" \/ (pc \in Remote /\ now < until)
        BY <1>10 DEF Tick, call
    <2>2. QED
        BY <2>1 DEF TokenInv, Remote
<1>11. CASE Revoke
    <2>1. UNCHANGED <<now, pc, ends, until, tokenTo>> /\ token' = [token EXCEPT !.alive = FALSE]
          /\ token.alive
        BY <1>11 DEF Revoke, call
    <2>2. token # NoToken
        BY <2>1 DEF NoToken
    <2>3. token'.till = token.till /\ token'.short = token.short
          /\ token' \in [till : Int, short : BOOLEAN, alive : BOOLEAN]
        BY <2>1 DEF TokenInv
    <2>4. QED
        BY <2>1, <2>2, <2>3 DEF TokenInv
<1>12. CASE Crash
    BY <1>12 DEF Crash, TokenInv, Remote, NoToken
<1>13. CASE UNCHANGED vars
    BY <1>13 DEF vars, call, TokenInv
<1>14. QED
    BY <1>1, <1>2, <1>3, <1>4, <1>5, <1>6, <1>7, <1>8, <1>9, <1>10, <1>11, <1>12, <1>13 DEF Next

\* With any timeouts the margin covers, no send posts with a token that has run
\* out, however late the reply that brought it.
THEOREM KeptTokensOutliveSends == Spec => []TokenOutlivesTheSend
BY TokenImplies, TokenInit, TokenStep, PTL DEF Spec
-----------------------------------------------------------------------------
(***************************************************************************)
(* Type correctness                                                        *)
(***************************************************************************)

\* Everything but the two histories of the backends has its range.
RangeInv ==
    /\ now <= MaxTime /\ config \in Configs
    /\ form \in {"interactive", "text"} /\ shown \subseteq {"interactive", "text", "hook"}
    /\ landed \in BOOLEAN /\ (landed => pc \in Remote \ {"auth"})
    /\ pc \in Remote => ends <= now + SendBudget
    /\ token.alive => tokenTo <= token.till + RequestTimeout
    /\ sends \in 0..MaxSends /\ faults \in 0..MaxFaults
    /\ \A m \in Messages : cut[m] <= faults

LEMMA RangeInit == Init => RangeInv
<1> SUFFICES ASSUME Init PROVE RangeInv
    OBVIOUS
<1>1. MaxSends \in Nat /\ MaxFaults \in Nat /\ MaxTime \in Nat
    BY DeliveryAssumption
<1>2. \A m \in Messages : cut[m] = 0
    BY DEF Init
<1>3. ~token.alive
    BY DEF Init, NoToken
<1>4. /\ now = 0 /\ config \in Configs /\ pc = "idle" /\ landed = FALSE /\ form = "interactive"
      /\ shown = {} /\ sends = 0 /\ faults = 0
    BY DEF Init
<1>5. /\ now <= MaxTime /\ sends \in 0..MaxSends /\ faults \in 0..MaxFaults
      /\ \A m \in Messages : cut[m] <= faults
    BY <1>1, <1>2, <1>4
<1>6. pc \notin Remote
    BY <1>4 DEF Remote
<1>7. QED
    BY <1>3, <1>4, <1>5, <1>6 DEF RangeInv

LEMMA RangeStep == WalkInv /\ TokenInv /\ RangeInv /\ [Next]_vars => RangeInv'
<1> SUFFICES ASSUME WalkInv, TokenInv, RangeInv, [Next]_vars PROVE RangeInv'
    OBVIOUS
<1> USE Timeouts
<1>0. MaxSends \in Nat /\ MaxFaults \in Nat /\ MaxTime \in Nat
    BY DeliveryAssumption
<1>n. now \in Nat /\ ends \in Int /\ tokenTo \in Int /\ token.till \in Int
    BY DEF TokenInv
<1>1. CASE Send
    <2>1. /\ UNCHANGED <<now, config, landed, form, token, tokenTo, cut, faults>>
          /\ pc' = "turn" /\ pc = "idle" /\ shown' = {} /\ sends' = sends + 1 /\ sends < MaxSends
        BY <1>1 DEF Send, history
    <2>2. sends' \in 0..MaxSends
        BY <1>0, <2>1 DEF RangeInv
    <2>3. QED
        BY <2>1, <2>2 DEF RangeInv, Remote
<1>2. CASE Return
    BY <1>2 DEF Return, history, RangeInv, Remote
<1>3. CASE \/ NoRoute \/ Broken \/ WriteFails \/ Success \/ AppendLine \/ PrintPlain
           \/ (Refused /\ ~(pc = "post" /\ form = "interactive"))
    <2>1. Continue /\ UNCHANGED <<now, config, shown, token, tokenTo, cut, sends, faults>>
        BY <1>3 DEF NoRoute, Broken, WriteFails, Success, AppendLine, PrintPlain, Refused, Fails,
                    Accepts
    <2>2. QED
        BY <2>1 DEF Continue, RangeInv, Remote
<1>4. CASE SendWebhook \/ RunRelay \/ SendApp \/ (Refused /\ pc = "post" /\ form = "interactive")
    <2>1. /\ UNCHANGED <<now, config, ends, shown, token, tokenTo, cut, sends, faults>>
          /\ pc' \in Remote /\ landed' = FALSE /\ form' \in {form, "interactive", "text"}
          /\ pc = "turn" \/ pc \in Remote
        BY <1>4 DEF SendWebhook, RunRelay, SendApp, Refused, At, Ask, Remote, history
    <2>2. ends <= now + SendBudget
        BY <1>n, <2>1 DEF TokenInv, RangeInv
    <2>3. QED
        BY <2>1, <2>2 DEF RangeInv
<1>5. CASE Granted
    <2>1. /\ UNCHANGED <<now, config, ends, shown, cut, sends, faults>>
          /\ pc' = "post" /\ pc \in Remote /\ landed' = FALSE /\ form' = "interactive"
        BY <1>5 DEF Granted, Ask, Remote, history
    <2>2. PICK life \in Lifetimes, ago \in 0..RequestTimeout :
             /\ token' = [till |-> now - ago + LifeOf(life),
                          short |-> LifeOf(life) <= Margin, alive |-> TRUE]
             /\ tokenTo' = now + KeptFor(life)
        BY <1>5 DEF Granted
    <2>3. LifeOf(life) \in Nat /\ ago \in Nat /\ ago <= RequestTimeout
        BY DEF LifeOf
    <2>4. KeptFor(life) \in Int /\ KeptFor(life) <= LifeOf(life)
        BY <2>3 DEF KeptFor
    <2>5. token'.till = now - ago + LifeOf(life)
        BY <2>2
    <2>6. tokenTo' <= token'.till + RequestTimeout
        BY <1>n, <2>2, <2>3, <2>4, <2>5
    <2>7. QED
        BY <2>1, <2>6 DEF RangeInv, Remote
<1>6. CASE Land
    <2>1. /\ UNCHANGED <<now, config, pc, ends, form, token, tokenTo, cut, sends, faults>>
          /\ pc \in Remote \ {"auth"} /\ landed' = TRUE
          /\ shown' \subseteq shown \union {form, "hook"}
        BY <1>6 DEF Land, Remote
    <2>2. QED
        BY <2>1 DEF RangeInv
<1>7. CASE WriteLatest
    BY <1>7 DEF WriteLatest, call, history, RangeInv, Remote, At
<1>8. CASE Tick
    <2>1. /\ now' = now + 1 /\ now < MaxTime
          /\ UNCHANGED <<config, pc, ends, landed, form, shown, token, tokenTo, cut, sends, faults>>
        BY <1>8 DEF Tick, call, history
    <2>2. now' <= MaxTime /\ (ends <= now + SendBudget => ends <= now' + SendBudget)
        BY <1>0, <1>n, <2>1
    <2>3. QED
        BY <2>1, <2>2 DEF RangeInv
<1>9. CASE Revoke
    <2>1. /\ token' = [token EXCEPT !.alive = FALSE] /\ faults' = faults + 1 /\ faults < MaxFaults
          /\ UNCHANGED <<now, config, pc, ends, landed, form, shown, tokenTo, cut, sends>>
        BY <1>9 DEF Revoke, call, history
    <2>2. ~token'.alive
        BY <2>1 DEF TokenInv
    <2>3. faults' \in 0..MaxFaults /\ \A m \in Messages : cut'[m] <= faults'
        <3>1. \A m \in Messages : cut[m] \in Nat /\ cut[m] <= faults
            BY DEF WalkInv, RangeInv
        <3>2. faults \in Nat
            BY <1>0 DEF RangeInv
        <3>3. QED
            BY <1>0, <2>1, <3>1, <3>2
    <2>4. QED
        BY <2>1, <2>2, <2>3 DEF RangeInv
<1>10. CASE Crash
    <2>1. /\ UNCHANGED <<now, config, sends>> /\ faults' = faults + 1 /\ faults < MaxFaults
          /\ pc' = "idle" /\ landed' = FALSE /\ form' = "interactive" /\ shown' = {}
          /\ token' = NoToken /\ cut' = [cut EXCEPT ![msg] = @ + 1] /\ msg \in Messages
        BY <1>10 DEF Crash, WalkInv
    <2>2. faults' \in 0..MaxFaults /\ \A m \in Messages : cut'[m] <= faults'
        <3>1. \A m \in Messages : cut[m] \in Nat /\ cut[m] <= faults
            BY DEF WalkInv, RangeInv
        <3>2. faults \in Nat
            BY <1>0 DEF RangeInv
        <3>3. \A m \in Messages : cut'[m] \in {cut[m], cut[m] + 1}
            BY <2>1 DEF WalkInv
        <3>4. QED
            BY <1>0, <2>1, <3>1, <3>2, <3>3
    <2>3. ~token'.alive
        BY <2>1 DEF NoToken
    <2>4. QED
        BY <2>1, <2>2, <2>3 DEF RangeInv, Remote
<1>11. CASE UNCHANGED vars
    BY <1>11 DEF vars, call, history, RangeInv
<1>12. QED
    BY <1>1, <1>2, <1>3, <1>4, <1>5, <1>6, <1>7, <1>8, <1>9, <1>10, <1>11 DEF Next

\* What the send may still do for a backend: reach its reader, be accepted by it.
Spent(b) == Passed(b) \/ (landed /\ Items[turn] = b)

\* Each send reaches a backend's reader once at most, and is accepted by it once.
CountInv ==
    \A b \in Backends, m \in Messages :
        /\ reached[b][m] + (IF pc = "idle" \/ Spent(b) THEN 0 ELSE 1) <= sends
        /\ taken[b][m] + (IF pc = "idle" \/ Passed(b) THEN 0 ELSE 1) <= sends

LEMMA CountInit == Init => CountInv
<1> SUFFICES ASSUME Init PROVE CountInv
    OBVIOUS
<1>1. \A b \in Backends, m \in Messages : reached[b][m] = 0 /\ taken[b][m] = 0
    BY DEF Init
<1>2. QED
    BY <1>1 DEF Init, CountInv

LEMMA CountStep == WalkInv /\ RangeInv /\ CountInv /\ [Next]_vars => CountInv'
<1> SUFFICES ASSUME WalkInv, RangeInv, CountInv, [Next]_vars PROVE CountInv'
    OBVIOUS
<1>0. /\ Items' = Items /\ Items[turn] \in Backends
      /\ taken \in [Backends -> [Messages -> Nat]] /\ reached \in [Backends -> [Messages -> Nat]]
    BY ConfigStays, ItemsProperties DEF WalkInv
<1>n. /\ \A b \in Backends, m \in Messages : taken[b][m] \in Nat /\ reached[b][m] \in Nat
      /\ sends \in Nat
    BY <1>0, DeliveryAssumption DEF RangeInv
<1>f. \* The general step: nobody is given a place back, and who is counted gives his up.
      ASSUME pc # "idle", sends' = sends,
             \A b \in Backends, m \in Messages :
                /\ \/ reached'[b][m] = reached[b][m] /\ (Spent(b) => pc' = "idle" \/ Spent(b)')
                   \/ reached'[b][m] = reached[b][m] + 1 /\ ~Spent(b) /\ Spent(b)'
                /\ \/ taken'[b][m] = taken[b][m] /\ (Passed(b) => pc' = "idle" \/ Passed(b)')
                   \/ taken'[b][m] = taken[b][m] + 1 /\ ~Passed(b) /\ Passed(b)'
      PROVE  CountInv'
    <2> SUFFICES ASSUME NEW b \in Backends, NEW m \in Messages
                 PROVE  /\ reached'[b][m] + (IF pc' = "idle" \/ Spent(b)' THEN 0 ELSE 1) <= sends
                        /\ taken'[b][m] + (IF pc' = "idle" \/ Passed(b)' THEN 0 ELSE 1) <= sends
        BY <1>f DEF CountInv
    <2>1. /\ reached[b][m] + (IF Spent(b) THEN 0 ELSE 1) <= sends
          /\ taken[b][m] + (IF Passed(b) THEN 0 ELSE 1) <= sends
        BY <1>f DEF CountInv
    <2> HIDE DEF Spent, Passed
    <2>2. reached'[b][m] + (IF pc' = "idle" \/ Spent(b)' THEN 0 ELSE 1) <= sends
        BY <1>n, <1>f, <2>1
    <2>3. taken'[b][m] + (IF pc' = "idle" \/ Passed(b)' THEN 0 ELSE 1) <= sends
        BY <1>n, <1>f, <2>1
    <2>4. QED
        BY <2>2, <2>3
<1>1. CASE Send
    <2>1. pc = "idle" /\ UNCHANGED <<reached, taken>> /\ sends' = sends + 1
        BY <1>1 DEF Send, history
    <2> SUFFICES ASSUME NEW b \in Backends, NEW m \in Messages
                 PROVE  reached[b][m] + 1 <= sends + 1 /\ taken[b][m] + 1 <= sends + 1
        BY <1>n, <2>1 DEF CountInv
    <2>2. reached[b][m] + 0 <= sends /\ taken[b][m] + 0 <= sends
        BY <2>1 DEF CountInv
    <2>3. QED
        BY <1>n, <2>2
<1>2. CASE Return \/ Crash
    <2>1. pc # "idle" /\ pc' = "idle" /\ UNCHANGED <<reached, taken, sends>>
        BY <1>2 DEF Return, Crash, history
    <2>2. QED
        BY <1>f, <2>1
<1>3. CASE \/ NoRoute \/ Broken \/ WriteFails \/ Success \/ AppendLine \/ PrintPlain
           \/ (Refused /\ ~(pc = "post" /\ form = "interactive"))
    <2>1. /\ pc \in Walking /\ pc # "idle" /\ Continue /\ UNCHANGED sends /\ msg \in Messages
          /\ (pc \notin Remote => ~landed)
        BY <1>3 DEF NoRoute, Broken, WriteFails, Success, AppendLine, PrintPlain, Refused, Fails,
                    Accepts, At, Walking, Remote, WalkInv, RangeInv
    <2>2. \A b \in Backends : /\ b = Items[turn] => ~Passed(b) /\ Passed(b)'
                              /\ Passed(b) => Passed(b)'
        BY <1>0, <2>1, PassedOnContinue
    <2>3. \A b \in Backends : /\ Spent(b) => Spent(b)'
                              /\ ~landed /\ b = Items[turn] => ~Spent(b) /\ Spent(b)'
        BY <2>2 DEF Spent
    <2>4. \/ Fails /\ UNCHANGED reached
          \/ Accepts /\ UNCHANGED reached
          \/ Accepts /\ Reaches /\ ~landed
        BY <1>3, <2>1 DEF NoRoute, Broken, WriteFails, Success, AppendLine, PrintPlain, Refused,
                          At, Remote
    <2>5. \A b \in Backends, m \in Messages :
             \/ taken'[b][m] = taken[b][m]
             \/ taken'[b][m] = taken[b][m] + 1 /\ b = Items[turn]
        <3>1. CASE Fails
            BY <3>1 DEF Fails
        <3>2. CASE Accepts
            <4>1. taken' = [taken EXCEPT ![Items[turn]][msg] = @ + 1]
                BY <3>2 DEF Accepts
            <4>2. QED
                BY <1>0, <2>1, <4>1, CountType
        <3>3. QED
            BY <2>4, <3>1, <3>2
    <2>6. \A b \in Backends, m \in Messages :
             \/ reached'[b][m] = reached[b][m]
             \/ reached'[b][m] = reached[b][m] + 1 /\ b = Items[turn] /\ ~landed
        <3>1. \/ reached' = reached
              \/ ~landed /\ reached' = [reached EXCEPT ![Items[turn]][msg] = @ + 1]
            BY <2>4 DEF Reaches
        <3>2. QED
            BY <1>0, <2>1, <3>1, CountType
    <2> HIDE DEF Spent, Passed
    <2>7. QED
        BY <1>f, <2>1, <2>2, <2>3, <2>5, <2>6
<1>4. CASE \/ SendWebhook \/ RunRelay \/ SendApp \/ Granted \/ WriteLatest
           \/ (Refused /\ pc = "post" /\ form = "interactive")
    <2>1. /\ pc \notin {"idle", "done"} /\ pc' \notin {"idle", "done"} /\ ~landed
          /\ UNCHANGED <<turn, reached, taken, sends>>
        BY <1>4 DEF SendWebhook, RunRelay, SendApp, Granted, WriteLatest, Refused, At, Ask, Remote,
                    history, RangeInv
    <2>2. \A b \in Backends : Passed(b)' = Passed(b) /\ (Spent(b) => Spent(b)')
        BY <1>0, <2>1 DEF Passed, Spent
    <2>3. QED
        BY <1>f, <2>1, <2>2
<1>5. CASE Land
    <2>1. /\ pc \in Walking /\ pc \notin {"idle", "done"} /\ ~landed /\ landed' /\ Reaches
          /\ UNCHANGED <<pc, turn, taken, sends>> /\ msg \in Messages
        BY <1>5 DEF Land, Walking, Remote, WalkInv
    <2>2. turn \in 1..Len(Items) /\ Len(Items) \in Nat
        BY ItemsProperties DEF WalkInv
    <2>3. ~Passed(Items[turn])
        <3>1. \A i \in 1..(turn - 1) : i \in 1..Len(Items) /\ i # turn
            BY <2>2
        <3>2. QED
            BY <2>1, <2>2, <3>1, ItemsProperties DEF Passed
    <2>4. \A b \in Backends : Passed(b)' = Passed(b) /\ (Spent(b) => Spent(b)')
        BY <1>0, <2>1 DEF Passed, Spent
    <2>5. \A b \in Backends : b = Items[turn] => ~Spent(b) /\ Spent(b)'
        BY <1>0, <2>1, <2>3 DEF Spent
    <2>6. \A b \in Backends, m \in Messages :
             \/ reached'[b][m] = reached[b][m]
             \/ reached'[b][m] = reached[b][m] + 1 /\ b = Items[turn]
        BY <1>0, <2>1, CountType DEF Reaches
    <2>7. QED
        BY <1>f, <2>1, <2>4, <2>5, <2>6
<1>6. CASE Tick \/ Revoke \/ UNCHANGED vars
    <2>1. UNCHANGED <<pc, turn, landed, reached, taken, sends>>
        BY <1>6 DEF Tick, Revoke, vars, call, history
    <2>2. \A b \in Backends : Passed(b)' = Passed(b) /\ Spent(b)' = Spent(b)
        BY <1>0, <2>1 DEF Passed, Spent
    <2>3. QED
        BY <2>1, <2>2 DEF CountInv
<1>7. QED
    BY <1>1, <1>2, <1>3, <1>4, <1>5, <1>6 DEF Next

LEMMA TypeImplied == WalkInv /\ TokenInv /\ RangeInv /\ CountInv => TypeOK
<1> SUFFICES ASSUME WalkInv, TokenInv, RangeInv, CountInv PROVE TypeOK
    OBVIOUS
<1>0. MaxMessages \in Nat /\ MaxSends \in Nat /\ MaxFaults \in Nat /\ MaxTime \in Nat
    BY DeliveryAssumption
<1>1. acked \subseteq Messages /\ (pc # "idle" => msg \in Messages \ acked)
    BY <1>0 DEF WalkInv, Messages
<1>2. \A b \in Backends, m \in Messages : reached[b][m] \in 0..MaxSends /\ taken[b][m] \in 0..MaxSends
    <2> TAKE b \in Backends, m \in Messages
    <2>1. reached[b][m] \in Nat /\ taken[b][m] \in Nat /\ sends \in Nat /\ sends <= MaxSends
        BY <1>0 DEF WalkInv, RangeInv
    <2>2. reached[b][m] <= sends /\ taken[b][m] <= sends
        BY <2>1 DEF CountInv
    <2>3. QED
        BY <1>0, <2>1, <2>2
<1>3. {reached, taken} \subseteq [Backends -> [Messages -> 0..MaxSends]]
    <2>1. /\ reached = [b \in Backends |-> [m \in Messages |-> reached[b][m]]]
          /\ taken = [b \in Backends |-> [m \in Messages |-> taken[b][m]]]
        BY DEF WalkInv
    <2>2. QED
        BY <1>2, <2>1
<1>4. cut \in [Messages -> 0..MaxFaults]
    <2>1. \A m \in Messages : cut[m] \in 0..MaxFaults
        BY <1>0 DEF WalkInv, RangeInv
    <2>2. QED
        BY <2>1 DEF WalkInv
<1>5. pc \in {"idle", "turn", "json", "log", "done"} \union Remote /\ ok \in BOOLEAN
    BY DEF WalkInv, Walking
<1>6. now \in 0..MaxTime
    BY <1>0 DEF TokenInv, RangeInv
<1>7. pc \in Remote => now <= until /\ until <= ends /\ ends <= now + SendBudget
    BY DEF TokenInv, RangeInv
<1>8. QED
    BY <1>1, <1>3, <1>4, <1>5, <1>6, <1>7 DEF TypeOK, RangeInv

\* A call never outlives its context, the kept token runs out on the client at most
\* one request after it does on the server, no message under way has been
\* acknowledged, and no backend gets or accepts more than there were sends.
THEOREM TypeCorrect == Spec => []TypeOK
BY TypeImplied, WalkInit, WalkStep, TokenInit, TokenStep, RangeInit, RangeStep, CountInit, CountStep,
   PTL DEF Spec
=============================================================================
