---------------------------- MODULE MCTopicTree ----------------------------
(***************************************************************************)
(* Instances of TopicTree.  Client c1 runs the server and keeps branch     *)
(* /main; c2 adds and removes /main/right below it, and subscribes to the  *)
(* branch or unsubscribes.                                                 *)
(***************************************************************************)
EXTENDS TopicTree

CONSTANTS c1, c2, main, left, right, srv

Paths == {<<srv>>, <<main>>, <<main, left>>, <<main, right>>}

Make(op, path) == [NoCall EXCEPT !.op = op, !.path = path]

NormalRun == Make("run", <<>>)
CleanRun == [NormalRun EXCEPT !.clean = TRUE]
AddRoot == Make("add", <<main>>)
AddBranch == [Make("queue", <<>>) EXCEPT !.rest = <<main, left>>]
RemoveRoot(recursive, exact) ==
    [Make("remove", <<main>>) EXCEPT !.recursive = recursive, !.exact = exact]
SubscribeBranch == [Make("subscribe", <<main>>) EXCEPT !.depth = 1]

Discipline == [x \in Client |->
    IF x = c1
    THEN <<{NormalRun}, {AddBranch},
           {RemoveRoot(TRUE, TRUE), RemoveRoot(FALSE, FALSE), NormalRun, CleanRun}>>
    ELSE <<{Make("add", <<main, right>>), SubscribeBranch},
           {Make("remove", <<main, right>>), Make("unsubscribe", <<main>>)}>>]

\* Both add /main at once.
TwoAdds == [x \in Client |->
    IF x = c1 THEN <<{NormalRun}, {AddRoot}>> ELSE <<{AddRoot}>>]

\* One removes the branch, the other removes /main/right and adds it again.
ReAdds == [x \in Client |->
    IF x = c1 THEN <<{NormalRun}, {AddRoot}, {RemoveRoot(TRUE, TRUE)}>>
    ELSE <<{Make("add", <<main, right>>)}, {Make("remove", <<main, right>>)},
           {Make("add", <<main, right>>)}>>]

=============================================================================
