------------------------------ MODULE Commands ------------------------------
EXTENDS Naturals, Sequences
(***************************************************************************)
(* The commands of the namespace runtime and the table that coalesces      *)
(* adjacent ones (internal/namespace/cmdqueue.go).  Pure operators: the    *)
(* queue itself and its consumer are in NsRuntime.                         *)
(*                                                                         *)
(* A desired set (apps) and a configuration (cfg, which stands for the     *)
(* pair cfg and bundleDef of the code) are opaque values here.             *)
(***************************************************************************)

CmdStart(apps, refresh) ==
    [tag |-> "start", apps |-> apps, refresh |-> refresh]

CmdRegenerate(apps, cfg, refresh) ==
    [tag |-> "regenerate", apps |-> apps, cfg |-> cfg, refresh |-> refresh]

CmdStop   == [tag |-> "stop"]
CmdDetach == [tag |-> "detach"]
CmdRetry  == [tag |-> "retryPullFailed"]

\* cmdStopApp, cmdStartApp and cmdRestartApp carry the name of one app.
CmdApp(tag, name) == [tag |-> tag, name |-> name]

\* The pairs of commands on one app that the table merges.
SameApp == { <<"stopApp", "stopApp">>, <<"stopApp", "startApp">>,
             <<"startApp", "stopApp">>, <<"restartApp", "restartApp">> }

\* The pairs of namespace commands that the table merges.
SameNs == ({"start"} \X {"start", "stop", "regenerate"})
          \cup ({"stop"} \X {"start", "stop"})
          \cup ({"regenerate"} \X {"start", "regenerate"})
          \cup {<<"retryPullFailed", "retryPullFailed">>}

\* Does collapseCommandsIfPossible(a, b) merge the command b into a?
Collapsible(a, b) ==
    \/ <<a.tag, b.tag>> \in SameNs
    \/ <<a.tag, b.tag>> \in SameApp /\ a.name = b.name

\* What it merges them into.  The later command wins, but a start already
\* covers a regenerate that follows it, and a refresh of the images asked by
\* either command is kept.
Merged(a, b) ==
    CASE a.tag = "start" /\ b.tag = "regenerate"
           -> [a EXCEPT !.refresh = a.refresh \/ b.refresh]
      [] a.tag \in {"start", "regenerate"} /\ b.tag \in {"start", a.tag}
           -> [b EXCEPT !.refresh = a.refresh \/ b.refresh]
      [] OTHER -> b

\* One step of the loop in Drain: the command c joins the survivors so far.
Coalesce(survivors, c) ==
    IF survivors # <<>> /\ Collapsible(survivors[Len(survivors)], c)
    THEN [survivors EXCEPT ![Len(survivors)] = Merged(survivors[Len(survivors)], c)]
    ELSE Append(survivors, c)
=============================================================================
