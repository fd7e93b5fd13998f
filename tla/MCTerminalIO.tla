---------------------------- MODULE MCTerminalIO ----------------------------
(***************************************************************************)
(* TerminalIO with requests that contend for the same lock or queue.       *)
(***************************************************************************)
EXTENDS TerminalIO, TLC

CONSTANTS c1, c2

Mix(first, second, present, answers, failing) ==
    [asks |-> (c1 :> first) @@ (c2 :> second), attached |-> present, replies |-> answers,
     faults |-> failing]

Reads == {"attach", "detach", "select", "unfenced", "claim"}

MixesMC ==
    {Mix({"claim"}, {"terminate"}, Views, 3, FALSE),
     Mix({"colors"}, {"resize", "write"}, Views, 3, TRUE),
     Mix(Reads, Reads, Views, 0, TRUE),
     Mix({"input", "automation"}, {"input", "automation", "terminate"}, Views, 1, FALSE),
     Mix({"resize"}, {"input", "write"}, Views, 1, FALSE)}
=============================================================================
