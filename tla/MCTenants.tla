------------------------------ MODULE MCTenants ------------------------------
(* Custom resources for TLC. *)
EXTENDS Tenants

Resource(kind, ns, name, affinity) ==
    [kind |-> kind, ns |-> ns, name |-> name, affinity |-> affinity]

Words == {"a", "b", "c", "dj", "dcj", "dcjs", "m", "n", "s", "t", "x"}

OneNode  == {<<"n">>}
TwoNodes == {<<"n">>, <<"m">>}
OneTick  == {"t"}

\* One name for a resource of each kind, and for one in another namespace.
Namesakes == {Resource("DaemonJob", <<"a">>, <<"x">>, {}),
              Resource("DaemonJob", <<"b">>, <<"x">>, {}),
              Resource("DaemonCronJob", <<"a">>, <<"x">>, {}),
              Resource("DaemonCronJobSet", <<"a">>, <<"x">>, {})}

\* Names that join to the same one.
Joined     == {Resource("DaemonJob", <<"a">>, <<"b", "c">>, {}),
               Resource("DaemonJob", <<"a", "b">>, <<"c">>, {})}
JoinedSets == {Resource("DaemonCronJobSet", <<"a">>, <<"s">>, {}),
               Resource("DaemonCronJobSet", <<"a">>, <<"s", "n">>, {})}
JoinedNodes == {<<"n">>, <<"n", "n">>}

Affine == {Resource("DaemonJob", <<"a">>, <<"x">>, {<<"m">>})}
=============================================================================
