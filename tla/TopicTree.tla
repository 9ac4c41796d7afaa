----------------------------- MODULE TopicTree -----------------------------
(***************************************************************************)
(* The event server's tree of topics: es/es.go and es/topic.go.            *)
(*                                                                         *)
(* A topic is an object: it may be in the tree, be cut off from it, or     *)
(* hang below one that is.  Its loop ends when its context does, and its   *)
(* context derives from that of the topic it was added to, or of the       *)
(* server's run.  Calls work on the tree with locks taken for one map      *)
(* access at a time, so each access is a step; a call that walks down or   *)
(* up a branch keeps the objects it met in its stack.                      *)
(*                                                                         *)
(* A path is a sequence of names; parsing is left out, except that a root  *)
(* topic may be named without its leading "/" (exact is FALSE then).       *)
(* Events and their delivery are in TopicDelivery.                         *)
(***************************************************************************)
EXTENDS Integers, Sequences, FiniteSets, Functions

CONSTANTS
    Name,       \* names of topics
    Default,    \* the name of the server's own topic, "/server"
    Path,       \* the paths in use, parents included
    Client,     \* goroutines that call the event server
    Calls,      \* bound: client -> what its first call, its second one, ... may be
    MaxTopics,  \* bound: topics created
    MaxRuns     \* bound: Run calls that pass its check

Front(s) == SubSeq(s, 1, Len(s) - 1)
Last(s) == s[Len(s)]

NoCall == [op |-> "add", path |-> <<>>, rest |-> <<>>, clean |-> FALSE,
           recursive |-> FALSE, exact |-> TRUE, depth |-> 0]

Request == [op : {"run", "add", "queue", "remove", "subscribe", "unsubscribe"},
            path : Path \cup {<<>>}, rest : Seq(Name), clean : BOOLEAN,
            recursive : BOOLEAN, exact : BOOLEAN, depth : Nat]

\* A call: op on path; rest are the names AddTopicQueue adds below path.
Call == {call \in Request :
            CASE call.op = "run" -> call.path = <<>> /\ call.rest = <<>>
              [] call.op = "queue" -> call.rest # <<>> /\ call.path \o call.rest \in Path
              [] OTHER -> call.path # <<>> /\ call.rest = <<>>}

ASSUME TreeAssumption ==
    /\ Default \in Name
    /\ Path \subseteq Seq(Name) \ {<<>>}
    /\ <<Default>> \in Path
    /\ \A p \in Path : Len(p) > 1 => Front(p) \in Path
    /\ {MaxTopics, MaxRuns} \subseteq Nat
    /\ \A c \in Client : Calls[c] \in Seq(SUBSET Call)

Topic == 1..MaxTopics
NoTopic == 0
Server == MaxTopics + 1     \* the owner of the root topics
Owner == Topic \cup {Server}
RunContext(r) == -r         \* contexts: topics have their own, runs have these

VARIABLES
    runned,     \* EventServer.runned
    runs,       \* the runs that Run has been called for
    ctx,        \* EventServer.ctx: the run it was set by, 0 before the first
    stoppers,   \* runs whose stopper goroutine has not fired
    ended,      \* cancelled contexts
    kids,       \* Topic.subtopics and EventServer.topics
    fullName,   \* topic -> its path, <<>> before it is created
    line,       \* topic -> the contexts its own derives from, {} before run
    live,       \* topics whose loop runs (Topic.runned)
    subs,       \* topic -> the clients that have subscriptions (Topic.subs)
    job,        \* client -> its call in progress or the last one
    crashed     \* the program has panicked

server == <<runned, runs, ctx, stoppers>>
topics == <<ended, kids, fullName, line, live, subs>>
vars == <<server, topics, job, crashed>>

Kids(n) == {x \in Name : kids[n][x] # NoTopic}
Created == {n \in Topic : fullName[n] # <<>>}
Cancelled(n) == line[n] \cap ended # {}

\* The object a path leads to.
NodeAt(p) ==
    LET Down[i \in 0..Len(p)] ==
          IF i = 0 THEN Server
          ELSE IF Down[i-1] = NoTopic THEN NoTopic ELSE kids[Down[i-1]][p[i]]
    IN Down[Len(p)]

InTree == {NodeAt(p) : p \in Path} \ {NoTopic}

-----------------------------------------------------------------------------
(* Calls.                                                                  *)

Idle(c) == job[c].at \in {"idle", "ok", "err"}
At(c, where) == job[c].at = where
Arrived(c, where) == At(c, where) /\ job[c].way = <<>>
Top(c) == Last(job[c].stack)

Goes(c, j) == job' = [job EXCEPT ![c] = j]
Moves(c, where) == Goes(c, [job[c] EXCEPT !.at = where])

\* The job of a call that returned, of which only the answer matters and, for
\* SubscribeCovers, which topics it was to cover.
Over(j, answer) ==
    [j EXCEPT !.at = answer, !.call = [NoCall EXCEPT !.op = j.call.op], !.node = Server,
              !.path = <<>>, !.way = <<>>, !.rest = <<>>, !.stack = <<>>, !.target = NoTopic,
              !.must = IF answer = "ok" THEN @ ELSE {}]

Ends(c, answer) == Goes(c, Over(job[c], answer))

\* An activation of a recursive function: on which topic, its stage, which
\* names its range over the map may still produce and which of those it must,
\* and the subtopic at hand.
Frame(n, names, stage) ==
    [node |-> n, names |-> names, must |-> {}, at |-> stage, kid |-> NoTopic]

Push(c, top, frame) ==
    Goes(c, [job[c] EXCEPT !.stack = Append(Append(Front(@), top), frame)])

\* The function returns nil; the call ends with the last one.
Pop(c) ==
    IF Len(job[c].stack) = 1 THEN Ends(c, "ok")
    ELSE Goes(c, [job[c] EXCEPT !.stack = Front(@)])

Replace(c, top) == Goes(c, [job[c] EXCEPT !.stack = Append(Front(@), top)])

Panic == crashed' = TRUE /\ UNCHANGED <<server, topics, job>>

\* A call other than Run is refused at once while the server is not running.
Begin(c, call) ==
    /\ Idle(c)
    /\ job[c].calls < Len(Calls[c])
    /\ call \in Calls[c][job[c].calls + 1]
    /\ IF call.op = "run" THEN ~runned ELSE runned
    /\ Goes(c, [job[c] EXCEPT
          !.calls = @ + 1, !.call = call, !.node = Server, !.path = call.path,
          !.rest = call.rest, !.must = {}, !.target = NoTopic,
          !.at = CASE call.op = "run" -> "clean"
                   [] call.op = "add" -> "parent"
                   [] call.op = "queue" -> "branch"
                   [] OTHER -> "target",
          !.way = IF call.op = "add" THEN Front(call.path) ELSE call.path])
    /\ UNCHANGED <<server, topics, crashed>>

Within(p, depth) == {q \in Path : /\ Len(q) \in Len(p)..(Len(p) + depth)
                                  /\ SubSeq(q, 1, Len(p)) = p}

\* RemoveTopic takes a root topic from the server, any other one from the topic
\* above, which it looks up anew.
RemoveFrom(j) ==
    IF Len(j.path) = 1
    THEN [j EXCEPT !.at = "removing", !.target = j.node,
                   !.stack = <<[Frame(Server, {}, "cancel") EXCEPT !.kid = j.node],
                               Frame(j.node, Name, "check")>>]
    ELSE [j EXCEPT !.at = "owner", !.target = j.node, !.node = Server, !.way = Front(j.path)]

\* What the caller of a lookup does with the topic found.  (must: what a
\* successful Subscribe has to cover, for SubscribeCovers.)
Found(j) ==
    CASE j.way # <<>> -> j
      [] j.way = <<>> /\ j.at = "owner" ->
            [j EXCEPT !.at = "removing", !.stack = <<Frame(j.node, {Last(j.path)}, "check")>>]
      [] j.way = <<>> /\ j.at = "target" /\ j.call.op = "remove" -> RemoveFrom(j)
      [] j.way = <<>> /\ j.at = "target" /\ j.call.op = "subscribe" ->
            [j EXCEPT !.at = "subscribing", !.stack = <<Frame(j.node, Name, "check")>>,
                      !.must = IF NodeAt(j.path) # j.node THEN {}
                               ELSE {NodeAt(p) : p \in Within(j.path, j.call.depth)}
                                       \ {NoTopic}]
      [] OTHER -> j

\* hasTopic, hasSubtopic and addSubtopic go one level down.
Walk(c) ==
    LET k == kids[job[c].node][Head(job[c].way)] IN
    /\ job[c].at \in {"branch", "parent", "target", "owner"}
    /\ job[c].way # <<>>
    /\ IF k = NoTopic THEN Ends(c, "err")
       ELSE Goes(c, Found([job[c] EXCEPT !.node = k, !.way = Tail(@)]))
    /\ UNCHANGED <<server, topics, crashed>>

-----------------------------------------------------------------------------
(* Running the server.                                                     *)

\* Run replaces the map of topics if it has to and starts the stopper ...
RunClean(c) ==
    /\ At(c, "clean")
    /\ runs < MaxRuns
    /\ kids' = IF job[c].call.clean
               THEN [kids EXCEPT ![Server] = [x \in Name |-> NoTopic]] ELSE kids
    /\ runs' = runs + 1
    /\ stoppers' = stoppers \cup {runs + 1}
    /\ Goes(c, [job[c] EXCEPT !.at = "set", !.run = runs + 1])
    /\ UNCHANGED <<runned, ctx, ended, fullName, line, live, subs, crashed>>

\* ... then sets its fields with no lock, and adds the server's own topic as
\* AddTopicQueue would, unless its stopper was faster.
RunSet(c) ==
    /\ At(c, "set")
    /\ runned' = TRUE
    /\ ctx' = job[c].run
    /\ Goes(c, [job[c] EXCEPT !.at = "branch", !.rest = <<Default>>, !.run = 0])
    /\ UNCHANGED <<runs, stoppers, topics, crashed>>

\* The caller of Run may cancel its context at any time.
Cancel(r) ==
    /\ r \in 1..runs
    /\ RunContext(r) \notin ended
    /\ ended' = ended \cup {RunContext(r)}
    /\ UNCHANGED <<server, kids, fullName, line, live, subs, job, crashed>>

StopperFires(r) ==
    /\ r \in stoppers
    /\ RunContext(r) \in ended
    /\ stoppers' = stoppers \ {r}
    /\ runned' = FALSE
    /\ UNCHANGED <<runs, ctx, topics, job, crashed>>

\* A topic's loop sees that its context is done.
LoopEnds(n) ==
    /\ n \in live
    /\ Cancelled(n)
    /\ live' = live \ {n}
    /\ UNCHANGED <<server, ended, kids, fullName, line, subs, job, crashed>>

-----------------------------------------------------------------------------
(* AddTopic and AddTopicQueue.                                             *)

\* AddTopicQueue goes on with the next name, below the last one.
NextInQueue(c) ==
    LET path == Append(job[c].path, Head(job[c].rest)) IN
    /\ Arrived(c, "branch")
    /\ IF ~runned THEN Ends(c, "err")
       ELSE Goes(c, [job[c] EXCEPT !.at = "parent", !.path = path, !.way = Front(path),
                                   !.rest = Tail(@), !.node = Server])
    /\ UNCHANGED <<server, topics, crashed>>

\* The job of a client whose AddTopic succeeded.
Added(c) == IF job[c].rest = <<>> THEN Over(job[c], "ok")
            ELSE [job[c] EXCEPT !.at = "branch", !.way = <<>>]

\* Mutated form: duplicates are not looked for.
AddCheckNone(c) ==
    /\ Arrived(c, "parent")
    /\ Moves(c, "insert")
    /\ UNCHANGED <<server, topics, crashed>>

\* Looks for a duplicate in one critical section ...
AddCheck(c) ==
    /\ Arrived(c, "parent")
    /\ IF kids[job[c].node][Last(job[c].path)] # NoTopic THEN Ends(c, "err")
       ELSE Moves(c, "insert")
    /\ UNCHANGED <<server, topics, crashed>>

\* ... writes the map in another, where it also sees whether the topic above
\* is served ...
Insert(c) ==
    LET n == Cardinality(Created) + 1
        up == job[c].node
    IN
    /\ At(c, "insert")
    /\ n \in Topic
    /\ kids' = [kids EXCEPT ![up][Last(job[c].path)] = n]
    /\ fullName' = [fullName EXCEPT ![n] = job[c].path]
    /\ Goes(c, IF up = Server \/ up \in live
               THEN [job[c] EXCEPT !.at = "start", !.target = n] ELSE Added(c))
    /\ UNCHANGED <<server, ended, line, live, subs, crashed>>

\* Mutated forms: the loop is started with no context of its own; the context
\* derives from the server's one in every topic; it derives from none.
StartTopicWith(c, contexts(_)) ==
    LET n == job[c].target IN
    /\ At(c, "start")
    /\ live' = live \cup {n}
    /\ line' = [line EXCEPT ![n] = contexts(n)]
    /\ Goes(c, Added(c))
    /\ UNCHANGED <<server, ended, kids, fullName, subs, crashed>>

StartTopicNoContext(c) == StartTopicWith(c, LAMBDA n : {RunContext(ctx)})
StartTopicOnServer(c) == StartTopicWith(c, LAMBDA n : {n, RunContext(ctx)})
StartTopicDetached(c) == StartTopicWith(c, LAMBDA n : {n})

\* ... and starts the topic's loop.  A root topic is started if the server is
\* running now, on the context it has now.
StartTopic(c) ==
    LET n == job[c].target
        up == job[c].node
        starts == up # Server \/ runned
    IN
    /\ At(c, "start")
    /\ live' = IF starts THEN live \cup {n} ELSE live
    /\ line' = IF starts
               THEN [line EXCEPT ![n] =
                       {n} \cup IF up = Server THEN {RunContext(ctx)} ELSE line[up]]
               ELSE line
    /\ Goes(c, Added(c))
    /\ UNCHANGED <<server, ended, kids, fullName, subs, crashed>>

-----------------------------------------------------------------------------
(* RemoveTopic.                                                            *)

\* removeSubtopics refuses to remove grandchildren without the flag.  Of one
\* name it asks the subtopic itself, which has to be there still.
RemoveCheck(c) ==
    LET f == Top(c)
        grandparents == {x \in f.names \cap Kids(f.node) : Kids(kids[f.node][x]) # {}}
    IN
    /\ At(c, "removing")
    /\ f.at = "check"
    /\ IF \/ job[c].call.recursive
          \/ grandparents = {} /\ (Len(job[c].stack) > 1 \/ f.names \subseteq Kids(f.node))
       THEN Replace(c, [f EXCEPT !.at = "range", !.must = f.names \cap Kids(f.node)])
            /\ UNCHANGED <<server, topics, crashed>>
       ELSE IF grandparents # {}
       THEN Ends(c, "err") /\ UNCHANGED <<server, topics, crashed>>
       ELSE Panic

\* The range over t.subtopics, with no lock, produces a subtopic.
RemoveDescend(c) ==
    LET f == Top(c) IN
    /\ At(c, "removing")
    /\ f.at = "range"
    /\ \E x \in f.names \cap Kids(f.node) :
          LET k == kids[f.node][x] IN
          Push(c, [f EXCEPT !.at = "cancel", !.kid = k, !.must = @ \ {x}],
               Frame(k, Name, "check"))
    /\ UNCHANGED <<server, topics, crashed>>

RemoveReturns(c) ==
    LET f == Top(c) IN
    /\ At(c, "removing")
    /\ f.at = "range"
    /\ f.must \cap Kids(f.node) = {}
    /\ Pop(c)
    /\ UNCHANGED <<server, topics, crashed>>

\* cancelCtx is nil in a topic that was never run.
RemoveCancel(c) ==
    LET f == Top(c) IN
    /\ At(c, "removing")
    /\ f.at = "cancel"
    /\ IF line[f.kid] = {} THEN Panic
       ELSE /\ ended' = ended \cup {f.kid}
            /\ Replace(c, [f EXCEPT !.at = "delete"])
            /\ UNCHANGED <<server, kids, fullName, line, live, subs, crashed>>

\* The entry is deleted by name; that of a root topic by the caller's spelling.
RemoveDelete(c) ==
    LET f == Top(c)
        x == Last(fullName[f.kid])
    IN
    /\ At(c, "removing")
    /\ f.at = "delete"
    /\ kids' = IF f.node = Server /\ ~job[c].call.exact THEN kids
               ELSE [kids EXCEPT ![f.node][x] = NoTopic]
    /\ IF f.node = Server THEN Ends(c, "ok") ELSE Replace(c, [f EXCEPT !.at = "range"])
    /\ UNCHANGED <<server, ended, fullName, line, live, subs, crashed>>

-----------------------------------------------------------------------------
(* Subscribe and UnSubscribe.                                              *)

\* Mutated form: one level too few.
DeeperStrictly(c) == Len(job[c].stack) < job[c].call.depth

\* The subscription covers the subtopics of the topic at hand.
Deeper(c) == Len(job[c].stack) <= job[c].call.depth

\* A stopped topic refuses, and the call fails with what it subscribed so far.
SubscribeOne(c) ==
    LET f == Top(c) IN
    /\ At(c, "subscribing")
    /\ f.at = "check"
    /\ IF f.node \notin live
       THEN Ends(c, "err") /\ UNCHANGED subs
       ELSE /\ subs' = [subs EXCEPT ![f.node] = @ \cup {c}]
            /\ IF Deeper(c) THEN Replace(c, [f EXCEPT !.at = "range", !.must = Kids(f.node)])
               ELSE Pop(c)
    /\ UNCHANGED <<server, ended, kids, fullName, line, live, crashed>>

SubscribeDescend(c) ==
    LET f == Top(c) IN
    /\ At(c, "subscribing")
    /\ f.at = "range"
    /\ \E x \in f.names \cap Kids(f.node) :
          Push(c, [f EXCEPT !.names = @ \ {x}], Frame(kids[f.node][x], Name, "check"))
    /\ UNCHANGED <<server, topics, crashed>>

SubscribeReturns(c) ==
    LET f == Top(c) IN
    /\ At(c, "subscribing")
    /\ f.at = "range"
    /\ f.must \cap f.names \cap Kids(f.node) = {}
    /\ Pop(c)
    /\ UNCHANGED <<server, topics, crashed>>

Unsubscribe(c) ==
    LET n == job[c].node IN
    /\ Arrived(c, "target")
    /\ job[c].call.op = "unsubscribe"
    /\ subs' = [subs EXCEPT ![n] = IF n \in live THEN @ \ {c} ELSE @]
    /\ Ends(c, IF n \in live /\ c \in subs[n] THEN "ok" ELSE "err")
    /\ UNCHANGED <<server, ended, kids, fullName, line, live, crashed>>

\* A range over a map of subtopics that another goroutine is writing: the
\* runtime may stop the program.
RangeMeetsWrite(c, d) ==
    /\ job[c].at \in {"removing", "subscribing"}
    /\ Top(c).at = "range"
    /\ \/ At(d, "insert") /\ job[d].node = Top(c).node
       \/ At(d, "removing") /\ Top(d).at = "delete" /\ Top(d).node = Top(c).node
    /\ Panic

-----------------------------------------------------------------------------
Init ==
    /\ runned = FALSE
    /\ runs = 0
    /\ ctx = 0
    /\ stoppers = {}
    /\ ended = {}
    /\ kids = [n \in Owner |-> [x \in Name |-> NoTopic]]
    /\ fullName = [n \in Topic |-> <<>>]
    /\ line = [n \in Topic |-> {}]
    /\ live = {}
    /\ subs = [n \in Topic |-> {}]
    /\ job = [c \in Client |->
                [at |-> "idle", calls |-> 0, call |-> NoCall, node |-> Server,
                 path |-> <<>>, way |-> <<>>, rest |-> <<>>, target |-> NoTopic,
                 must |-> {}, stack |-> <<>>, run |-> 0]]
    /\ crashed = FALSE

Step(c) ==
    \/ Walk(c) \/ RunClean(c) \/ RunSet(c)
    \/ NextInQueue(c) \/ AddCheck(c) \/ Insert(c) \/ StartTopic(c)
    \/ RemoveCheck(c) \/ RemoveDescend(c) \/ RemoveReturns(c)
    \/ RemoveCancel(c) \/ RemoveDelete(c)
    \/ SubscribeOne(c) \/ SubscribeDescend(c) \/ SubscribeReturns(c) \/ Unsubscribe(c)

Next ==
    /\ ~crashed
    /\ \/ \E c \in Client : Step(c) \/ \E call \in UNION Range(Calls[c]) : Begin(c, call)
       \/ \E c, d \in Client : RangeMeetsWrite(c, d)
       \/ \E r \in 1..MaxRuns : Cancel(r) \/ StopperFires(r)
       \/ \E n \in Topic : LoopEnds(n)

Spec == Init /\ [][Next]_vars

\* The goroutines of the server and of its topics are scheduled.
FairSpec ==
    /\ Spec
    /\ \A r \in 1..MaxRuns : WF_vars(~crashed /\ StopperFires(r))
    /\ \A n \in Topic : WF_vars(~crashed /\ LoopEnds(n))

-----------------------------------------------------------------------------
(* Properties.                                                             *)

Where == {"idle", "ok", "err", "clean", "set", "branch", "parent", "insert", "start",
          "target", "owner", "removing", "subscribing"}

\* Each variable has its type; a topic in the tree has been created, one whose
\* loop runs has a context, and a call at work on a branch has a stack.
TypeOK ==
    /\ {runned, crashed} \subseteq BOOLEAN
    /\ runs \in 0..MaxRuns
    /\ ctx \in 0..runs
    /\ stoppers \subseteq 1..runs
    /\ ended \subseteq Topic \cup {RunContext(r) : r \in 1..runs}
    /\ kids \in [Owner -> [Name -> Created \cup {NoTopic}]]
    /\ fullName \in [Topic -> Path \cup {<<>>}]
    /\ line \in [Topic -> SUBSET (Topic \cup {RunContext(r) : r \in 1..runs})]
    /\ live \subseteq {n \in Created : n \in line[n]}
    /\ subs \in [Topic -> SUBSET Client]
    /\ \A c \in Client :
          /\ job[c].at \in Where
          /\ job[c].node \in Owner
          /\ (job[c].at \in {"removing", "subscribing"}) = (job[c].stack # <<>>)

Finished(c, op) == At(c, "ok") /\ job[c].call.op = op

\* es/README "to subscribe for events to whole topic's branch": a recursive
\* Subscribe that succeeded reached every topic that was within its depth when
\* it began and is in the tree still, whatever was added and removed meanwhile.
SubscribeCovers ==
    \A c \in Client :
        Finished(c, "subscribe") => \A n \in job[c].must \cap InTree : c \in subs[n]

\* What a call is about to write in a map of topics, and what a removal is
\* about to delete there: entries <<topic, name>>.
Writes(c) == IF At(c, "insert") THEN {<<job[c].node, Last(job[c].path)>>} ELSE {}
Holds(f) == f.at \in {"cancel", "delete"}
Deletes(c) == {<<f.node, Last(fullName[f.kid])>> : f \in {g \in Range(job[c].stack) : Holds(g)}}

\* Which calls the server relies on its callers to keep apart: no entry is
\* written by two calls at once or by one while another deletes it, and no Run
\* is on its way while there is another, or a root topic is to be started.
Orderly ==
    \A c, d \in Client : c # d =>
        /\ Writes(c) \cap (Writes(d) \cup Deletes(d)) = {}
        /\ job[c].at \in {"clean", "set"} =>
              /\ job[d].at \notin {"clean", "set"}
              /\ ~(At(d, "start") /\ job[d].node = Server)

\* Topics are not leaked by callers that are orderly: a topic that can be found
\* no more is not served either, even if it was added below a topic while that
\* one was being removed.
NothingLeaks ==
    \A n \in live : Cancelled(n) \/ n \in InTree

\* The tree as its callers see it.
StatusAt(p) ==
    LET n == NodeAt(p) IN
    CASE n = NoTopic -> "free"
      [] n # NoTopic /\ line[n] = {} -> "idle"
      [] n # NoTopic /\ line[n] # {} -> IF Cancelled(n) THEN "cancelled" ELSE "served"

Registry == INSTANCE TopicRegistry WITH status <- [p \in Path |-> StatusAt(p)]

\* The tree of topics implements TopicRegistry.
ImplementsRegistry == Registry!Spec

\* When the last run ends every topic's loop ends, those that cannot be found
\* any more included.
RunEndStopsAll ==
    \A r \in 1..MaxRuns :
        <>[](ctx = r /\ RunContext(r) \in ended) => <>[](live = {} \/ crashed)

\* es/README "there is no way to have two topics `/main` on the server": of the
\* topics being served no two have the same name.
NoTwins ==
    \A m, n \in live :
        (m # n /\ ~Cancelled(m) /\ ~Cancelled(n)) => fullName[m] # fullName[n]

\* es/README "Just call `Run` method again with `cleanStart` false": no Run of
\* a stopped server fails, unless it is stopped again.
RunSucceeds ==
    \A c \in Client : At(c, "err") /\ job[c].call.op = "run" => RunContext(ctx) \in ended

=============================================================================
