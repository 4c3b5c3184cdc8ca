----------------------------- MODULE MCLifecycle ------------------------------
\* Instances of Lifecycle for TLC: the ways to write a variable.
EXTENDS Lifecycle

V(word, form) == [word |-> word, form |-> form]
Given == {Unset, V("given", "plain")}
URLs == {V("http://", "plain"), V("https://", "padded")}

\* Every combination of the forms that the rules about words depend on.
Worded ==
  [environment : {Unset, V("production", "padded"), V("production", "upper")},
   cookieSecure : {Unset, V("true", "plain"), V("false", "plain"), V("maybe", "plain")},
   sameSite : {Unset, V("none", "upper"), V("sometimes", "plain")},
   secret : {Unset, V("short", "plain"), V("replace-this...", "plain"), V("random", "padded")},
   mail : {V("  ", "blank"), V("log", "upper"), V("smtp", "plain"), V("pigeon", "plain")},
   publicURL : URLs, frontendURL : URLs,
   storage : {Unset, V("cloudinary", "upper"), V("tape", "plain")},
   account : Given, host : Given,
   pool : {<<20, 5>>}, limit : {10}, authLimit : {10}, port : {587}, imageMB : {5}]

\* Numbers at their boundaries, under providers that need them and others.
Numbered ==
  [environment : {V("development", "plain")},
   cookieSecure : {Unset}, sameSite : {Unset}, secret : {V("random", "plain")},
   mail : {Unset, V("smtp", "upper")}, publicURL : {Unset}, frontendURL : {Unset},
   storage : {Unset}, account : {Unset}, host : {V("given", "plain")},
   pool : {<<20, 5>>, <<1, 1>>, <<1, 2>>, <<0, 0>>, <<3, -1>>},
   limit : {-1, 0, 1}, authLimit : {0, 1}, port : {0, 1, 65535, 65536},
   imageMB : {-3, 0, 1} \cup {-40000, 40000, 65537}]  \* the last three wrap

McSettings == Worded \cup Numbered
=============================================================================
