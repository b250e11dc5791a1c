------------------------------ MODULE Workspaces ------------------------------
(***************************************************************************)
(* work/workspace.py: the managed working directories of build and review    *)
(* jobs.  Every call is synchronous and commits its row before it returns,    *)
(* so memory and table never differ after one: a single status stands for     *)
(* both.  The audit trail beside it is written in commits of its own and is   *)
(* left out.                                                                 *)
(***************************************************************************)
EXTENDS Naturals, FiniteSets

CONSTANTS WorkspaceIds,  \* identifiers create() may draw
          MaxActive,     \* max_active
          NoWorkspace    \* a job's workspace_id before it has one

ASSUME WorkspaceAssumption ==
    /\ IsFiniteSet(WorkspaceIds) /\ NoWorkspace \notin WorkspaceIds
    /\ MaxActive \in Nat

VARIABLES
    wsStatus,   \* Workspace.status, "none" before create()
    wsDir       \* the workspaces whose directory exists

wsVars == <<wsStatus, wsDir>>

WsStatuses == {"none", "created", "active", "completed", "failed", "cleaned"}

WorkspacesTypeOK ==
    /\ wsStatus \in [WorkspaceIds -> WsStatuses]
    /\ wsDir \subseteq WorkspaceIds

WorkspacesInit ==
    /\ wsStatus = [w \in WorkspaceIds |-> "none"]
    /\ wsDir = {}

InStatus(status, s) == {w \in WorkspaceIds : status[w] = s}

\* create(): only ACTIVE workspaces count against the limit
CanCreate(status) == Cardinality(InStatus(status, "active")) < MaxActive

\* uuid4 names are interchangeable: any unused one stands for the new one.
Unused(status) == InStatus(status, "none")
NewId(status) == CHOOSE w \in Unused(status) : TRUE

\* create() followed by activate(), as both services call them
Opened(status, w) == [status EXCEPT ![w] = "active"]

\* complete() or fail(), by the status of the job that ended
Closed(status, w, jobStatus) ==
    [status EXCEPT ![w] = IF jobStatus = "completed" THEN "completed" ELSE "failed"]

\* cleanup_expired() reaches a workspace whose job ended TTL hours ago.
CleanupExpired(w) ==
    /\ wsStatus[w] \in {"completed", "failed"}
    /\ wsDir' = wsDir \ {w}
    /\ wsStatus' = [wsStatus EXCEPT ![w] = "cleaned"]

\* The process dies between rmtree and the row, or between create() and activate().
HalfCleaned(w) ==
    /\ wsStatus[w] \in {"completed", "failed"} /\ w \in wsDir
    /\ wsDir' = wsDir \ {w}
    /\ UNCHANGED wsStatus

HalfCreated ==
    /\ CanCreate(wsStatus) /\ Unused(wsStatus) # {}
    /\ wsStatus' = [wsStatus EXCEPT ![NewId(wsStatus)] = "created"]
    /\ wsDir' = wsDir \cup {NewId(wsStatus)}
===============================================================================
