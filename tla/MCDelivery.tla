----------------------------- MODULE MCDelivery -----------------------------
(***************************************************************************)
(* Two messages through five set-ups: the application with the drop, the   *)
(* group bot alone, the drop with the relay, an application nobody         *)
(* configured with the console, and the drop with the console.             *)
(***************************************************************************)
EXTENDS Delivery

Setup(feishu, hook, app, drop, relay, console) ==
    [feishu |-> feishu, hook |-> hook, app |-> app, drop |-> drop, relay |-> relay,
     console |-> console]

MCConfigs == {Setup(TRUE, FALSE, TRUE, TRUE, FALSE, FALSE),
              Setup(TRUE, TRUE, TRUE, FALSE, FALSE, FALSE),
              Setup(FALSE, FALSE, FALSE, TRUE, TRUE, FALSE),
              Setup(TRUE, FALSE, FALSE, FALSE, FALSE, TRUE),
              Setup(FALSE, TRUE, TRUE, TRUE, FALSE, TRUE)}
=============================================================================
