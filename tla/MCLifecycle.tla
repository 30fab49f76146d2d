----------------------------- MODULE MCLifecycle -----------------------------
(* Small instances of Lifecycle: 4-bit settings, and the environments that differ in control. *)
EXTENDS LifecycleProperties

\* -8 .. 7 fits; 18 would be taken for 2 if it were cut to 4 bits.
Numbers == {Unset, Malformed, Written(-3), Written(1), Written(7), Written(18)}

SizedEnvironments ==
  [dsn : {TRUE}, baseURL : {"address"}, minConns : Numbers, maxConns : Numbers,
   connectTimeout : {Unset}]

\* Without a time limit for connecting, a database that is down keeps the process starting.
WiredEnvironments ==
  [dsn : BOOLEAN, baseURL : BaseURLs, minConns : {Written(0)}, maxConns : {Written(1)},
   connectTimeout : {Unset, Written(0)}]
=============================================================================
