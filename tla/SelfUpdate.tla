------------------------------ MODULE SelfUpdate ------------------------------
(***************************************************************************)
(* core/self_update.py and AgentBrain._schedule_graceful_restart: the owner   *)
(* tells the agent to take its own repository forward.  Every git command is  *)
(* awaited, so a second request, the operator working in the checkout and the *)
(* remote get in between a check and the pull it was made for.               *)
(*                                                                         *)
(* A checkout is `base' commits of the upstream branch and `own' commits of   *)
(* the operator's on top.  The pull names the LOCAL branch on the remote,     *)
(* which need not be the upstream one; a command that is killed when its time *)
(* is up may have done all of its work, or half of it.                       *)
(***************************************************************************)
EXTENDS Naturals

CONSTANTS UpdateRequests,     \* the owner's requests
          LastCommit,  \* upstream commits after the first (bound)
          LastOwn      \* the operator's commits that are not pushed (bound)

ASSUME SelfUpdateAssumption == LastCommit \in Nat /\ LastOwn \in Nat

\* No repository, no branch, no upstream; or what the remote has under the local branch's
\* name: the upstream branch, an older branch, nothing.
Deployments == {"no_repo", "detached", "no_remote", "namesake", "older", "absent"}

\* SelfUpdateResult.status, "none" before
UpdateAnswers == {"none", "denied", "no_repo", "no_remote", "dirty", "up_to_date",
                  "fast_forward_unavailable", "updated", "error"}
UpdatePlaces == {"idle", "asked", "clean", "fetched", "counted", "pulling", "pulled",
                 "answered", "lost"}

VARIABLES
    deployment,  \* the checkout's branch and its remote
    restarts,    \* "on" if asked for in the environment and supervised
    checkout,    \* HEAD and the working tree
    upstreamHead, \* commits on the upstream branch
    fetched,     \* how many of them the remote-tracking ref has
    mine,        \* the operator's commits that are nowhere else
    draft,       \* the operator is editing tracked files
    update,      \* where run_self_update stands, and what it keeps across an await
    leaving,     \* a restart is scheduled
    running,     \* the upstream commits in the code the process was started from
    unseen       \* a pull moved HEAD and nobody waited for it to end

operatorVars == <<mine, draft>>
processVars == <<leaving, running>>
updateVars == <<deployment, restarts, checkout, upstreamHead, fetched, operatorVars, update,
                processVars, unseen>>

SelfUpdateTypeOK ==
    /\ deployment \in Deployments /\ restarts \in {"off", "on"}
    /\ checkout \in [base : 0..LastCommit, own : 0..LastOwn, merged : BOOLEAN, dirty : BOOLEAN]
    /\ upstreamHead \in 0..LastCommit /\ fetched \in 0..LastCommit /\ running \in 0..LastCommit
    /\ mine \in 0..LastOwn /\ {draft, leaving, unseen} \subseteq BOOLEAN
    /\ update \in [UpdateRequests -> [at : UpdatePlaces, behind : BOOLEAN, answer : UpdateAnswers]]

SelfUpdateInit ==
    /\ deployment \in Deployments /\ restarts \in {"off", "on"}
    /\ checkout = [base |-> 0, own |-> 0, merged |-> FALSE, dirty |-> FALSE]
    /\ upstreamHead = 0 /\ fetched = 0 /\ mine = 0 /\ draft = FALSE
    /\ update = [u \in UpdateRequests |-> [at |-> "idle", behind |-> FALSE, answer |-> "none"]]
    /\ leaving = FALSE /\ running = 0 /\ unseen = FALSE

Stands(u, place) == update[u].at = place
Proceeds(u, place) == update' = [update EXCEPT ![u].at = place]
AnswersWith(u, status) == update' = [update EXCEPT ![u].at = "answered", ![u].answer = status]

\* What a request that only looks leaves alone
NothingMoves == UNCHANGED <<deployment, restarts, checkout, upstreamHead, fetched, operatorVars,
                            processVars, unseen>>

-----------------------------------------------------------------------------
\* Not the owner, or from a group
DenyUpdate(u) ==
    /\ Stands(u, "idle") /\ AnswersWith(u, "denied")
    /\ NothingMoves

\* Steps 1 to 3: the branch, its upstream and the remote are read, or git does not answer.
AskForUpdate(u) ==
    /\ Stands(u, "idle")
    /\ \/ deployment = "detached" /\ AnswersWith(u, "error")
       \/ deployment \in {"no_repo", "no_remote"} /\ AnswersWith(u, deployment)
       \/ deployment \in {"namesake", "older", "absent"} /\ Proceeds(u, "asked")
       \/ deployment \notin {"no_repo", "detached"}
          /\ \E status \in {"error", "no_remote"} : AnswersWith(u, status)
    /\ NothingMoves

\* Step 4: git status, without the untracked files
CheckTree(u) ==
    /\ Stands(u, "asked")
    /\ \/ AnswersWith(u, "error")
       \/ checkout.dirty /\ AnswersWith(u, "dirty")
       \/ ~checkout.dirty /\ Proceeds(u, "clean")
    /\ NothingMoves

\* Step 5: a fetch that fails, or is killed, may have moved the ref.
FetchUpstream(u) ==
    /\ Stands(u, "clean")
    /\ \/ Proceeds(u, "fetched") /\ fetched' = upstreamHead
       \/ AnswersWith(u, "error") /\ fetched' \in {fetched, upstreamHead}
    /\ UNCHANGED <<deployment, restarts, checkout, upstreamHead, operatorVars, processVars, unseen>>

\* Step 6, two commands: a count that fails is read as zero.
CountBehind(u) ==
    /\ Stands(u, "fetched")
    /\ \E seen \in {fetched > checkout.base, FALSE} :
            update' = [update EXCEPT ![u].at = "counted", ![u].behind = seen]
    /\ NothingMoves

CountAhead(u) ==
    /\ Stands(u, "counted")
    /\ \E ahead \in {checkout.own > 0, FALSE} :
            IF ~update[u].behind THEN AnswersWith(u, "up_to_date")
            ELSE IF ahead THEN AnswersWith(u, "fast_forward_unavailable")
            ELSE Proceeds(u, "pulling")
    /\ NothingMoves

\* The end of the remote's branch of the local name; HEAD has all of an older one.
PullTarget == IF deployment = "namesake" THEN upstreamHead ELSE checkout.base
PullMoves == PullTarget > checkout.base

\* git pull --ff-only looks at the branch again.
MutantFastForwards ==                           \* without --ff-only what has diverged is merged
    /\ deployment # "absent"
    /\ checkout' = [checkout EXCEPT !.base = PullTarget,
                                    !.merged = @ \/ (PullMoves /\ checkout.own > 0)]
FastForwards ==
    /\ deployment # "absent"
    /\ PullMoves => checkout.own = 0
    /\ checkout' = [checkout EXCEPT !.base = PullTarget]

\* ... and the ref of the branch it names
PullFetches == IF deployment = "namesake" THEN upstreamHead ELSE fetched

\* Step 7
PullTakes(u) ==
    /\ Stands(u, "pulling") /\ FastForwards /\ Proceeds(u, "pulled")
    /\ fetched' = PullFetches
    /\ UNCHANGED <<deployment, restarts, upstreamHead, operatorVars, processVars, unseen>>

\* Diverged, edited in the same place, no such branch, locked by another git, no network
PullRefused(u) ==
    /\ Stands(u, "pulling") /\ AnswersWith(u, "error")
    /\ fetched' \in {fetched, PullFetches}
    /\ UNCHANGED <<deployment, restarts, checkout, upstreamHead, operatorVars, processVars, unseen>>

\* Killed after three minutes, when HEAD had moved or while the files were being written;
\* before that it is like a refusal.
PullKilled(u) ==
    /\ Stands(u, "pulling") /\ AnswersWith(u, "error") /\ PullMoves
    /\ \/ FastForwards /\ unseen' = TRUE
       \/ /\ checkout.own = 0
          /\ checkout' = [checkout EXCEPT !.dirty = TRUE]
          /\ UNCHANGED unseen
    /\ fetched' = PullFetches
    /\ UNCHANGED <<deployment, restarts, upstreamHead, operatorVars, processVars>>

\* The brain schedules the restart before it returns the answer.
Scheduled == leaving \/ restarts = "on"
AnswerUpdated(u) ==
    /\ Stands(u, "pulled") /\ AnswersWith(u, "updated")
    /\ leaving' = Scheduled
    /\ UNCHANGED <<deployment, restarts, checkout, upstreamHead, fetched, operatorVars, running,
                   unseen>>

-----------------------------------------------------------------------------
\* A new process; requests under way are gone.
ProcessStarts(code) ==
    /\ running' = code /\ leaving' = FALSE
    /\ update' = [u \in UpdateRequests |->
                    IF update[u].at \in {"idle", "answered"} THEN update[u]
                    ELSE [update[u] EXCEPT !.at = "lost"]]
    /\ UNCHANGED <<deployment, restarts, upstreamHead, operatorVars>>

\* The grace period is over: stop(), os._exit(0), and the supervisor.  stop() does not wait
\* for requests, and a pull one of them began goes on.
LeaveForNewCode ==
    /\ leaving /\ ProcessStarts(checkout.base)
    /\ \/ UNCHANGED <<checkout, fetched, unseen>>
       \/ /\ \E u \in UpdateRequests : Stands(u, "pulling")
          /\ PullMoves /\ FastForwards /\ fetched' = PullFetches /\ unseen' = TRUE

\* The process dies or is stopped, and is started again by hand.
StartAgain ==
    /\ ProcessStarts(checkout.base)
    /\ \E u \in UpdateRequests : ~Stands(u, "idle")
    /\ UNCHANGED <<checkout, fetched, unseen>>

\* Somebody pushes to the upstream branch.
UpstreamGrows ==
    /\ upstreamHead < LastCommit /\ upstreamHead' = upstreamHead + 1
    /\ UNCHANGED <<deployment, restarts, checkout, fetched, operatorVars, update, processVars,
                   unseen>>

\* The operator edits tracked files, and throws the edits away or commits them.
EditTree ==
    /\ ~draft /\ draft' = TRUE
    /\ checkout' = [checkout EXCEPT !.dirty = TRUE]
    /\ UNCHANGED <<deployment, restarts, upstreamHead, fetched, mine, update, processVars, unseen>>
CleanTree ==
    /\ checkout.dirty /\ draft' = FALSE
    /\ checkout' = [checkout EXCEPT !.dirty = FALSE]
    /\ UNCHANGED <<deployment, restarts, upstreamHead, fetched, mine, update, processVars, unseen>>
CommitEdits ==
    /\ draft /\ draft' = FALSE
    /\ mine < LastOwn /\ mine' = mine + 1
    /\ checkout' = [checkout EXCEPT !.own = @ + 1, !.dirty = FALSE]
    /\ UNCHANGED <<deployment, restarts, upstreamHead, fetched, update, processVars, unseen>>

UpdateNext ==
    \/ \E u \in UpdateRequests :
          \/ DenyUpdate(u) \/ AskForUpdate(u) \/ CheckTree(u) \/ FetchUpstream(u)
          \/ CountBehind(u) \/ CountAhead(u)
          \/ PullTakes(u) \/ PullRefused(u) \/ PullKilled(u) \/ AnswerUpdated(u)
    \/ LeaveForNewCode \/ StartAgain
    \/ UpstreamGrows \/ EditTree \/ CleanTree \/ CommitEdits

UpdateSpec == SelfUpdateInit /\ [][UpdateNext]_updateVars

(***************************************************************************)
(* Properties                                                              *)
(***************************************************************************)
\* The operator's commits and edits outlive every update, whenever they are made between the
\* checks of run_self_update and its pull, and the branch never gets a commit that nobody
\* made: the checks are stale by then, and --ff-only is what keeps the promise of
\* docs/SELF_UPDATE.md, "never destructive".
UpdateKeepsWork ==
    /\ checkout.own = mine /\ ~checkout.merged
    /\ draft => checkout.dirty

\* Where restarts are on, a process that runs older code than the checkout holds is about to
\* be restarted or to answer the request that moved it - unless a pull was given up and took
\* effect all the same: that process is never restarted for it, and answers later requests
\* with "up to date".
OldCodeIsExplained ==
    restarts = "on" /\ ~unseen /\ running < checkout.base
        => leaving \/ \E u \in UpdateRequests : Stands(u, "pulled")

\* An update loses nothing, and what it leaves running is explained.
UpdateIsHonest == UpdateKeepsWork /\ OldCodeIsExplained
===============================================================================
