---------------------------- MODULE MCJobService ----------------------------
(* Model-checking instances of JobService.  Pods are interchangeable, but no *)
(* symmetry is used: liveness is checked.                                    *)
EXTENDS JobService

CONSTANTS p1, p2, c, k

Deploy(pods, comsumers, crontabs, launches, calls, lost) ==
    [pods |-> pods, comsumers |-> comsumers, crontabs |-> crontabs,
     comsumerEnable |-> TRUE, crontabEnable |-> TRUE,
     starts |-> launches, calls |-> calls, outages |-> lost]

\* Two pods that share the stop flags of a consumer; a consumer and a crontab in
\* one pod; a pod that is closed or killed and starts again; a pod that loses Redis
\* before or after it starts again; and one that loses it while it is closed.
PassDeployments ==
    {Deploy({p1, p2}, {c}, {}, 2, {"StopJob"}, 0),
     Deploy({p1}, {c}, {k}, 1, {"StopJob"}, 0),
     Deploy({p1}, {c}, {}, 2, {"StopJob", "Close"}, 0),
     Deploy({p1}, {c}, {}, 2, {"StopJob"}, 1),
     Deploy({p1}, {}, {k}, 1, {"StopJob", "Close"}, 1)}

\* One pod with a crontab.
StopDeployments == {Deploy({p1}, {}, {k}, 1, {"StopJob"}, 0)}

\* One pod with a consumer.
CloseDeployments == {Deploy({p1}, {c}, {}, 1, {"Close"}, 0)}
=============================================================================
