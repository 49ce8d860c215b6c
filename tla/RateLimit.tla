------------------------------ MODULE RateLimit ------------------------------
(***************************************************************************)
(* The fixed-window limiter in front of a group of endpoints               *)
(* (handler/ratelimit.go).  A client is what TrustedProxyIPExtractor       *)
(* (handler/realip.go) takes it to be.  Time is kept as the age of each    *)
(* window; a window that is over and no bucket at all are treated alike by *)
(* the code, and are one value here.                                       *)
(***************************************************************************)
EXTENDS Naturals, FiniteSetsExt

CONSTANTS
  Clients,  \* addresses
  Limit,    \* requests per window; 0 switches the limiter off
  Window

ASSUME RateAssumption == Limit \in Nat /\ Window \in Nat \ {0}

VARIABLES
  bucket,   \* rateBucket of each client: count, and the age of windowStart
  admitted  \* history variable: how many requests were let through, by age

rateVars == <<bucket, admitted>>

-----------------------------------------------------------------------------
NoBucket == [count |-> 0, age |-> Window]

InitRate ==
  /\ bucket = [ip \in Clients |-> NoBucket]
  /\ admitted = [ip \in Clients |-> [a \in 0..(Window - 1) |-> 0]]

\* Mutant: the comparison with the limit is off by one.
AllowsOneMore(ip) ==
  Limit = 0 \/ bucket[ip].age = Window \/ bucket[ip].count <= Limit

Allows(ip) == Limit = 0 \/ bucket[ip].age = Window \/ bucket[ip].count < Limit

\* allow, under its mutex.  A request that is not let through changes nothing.
Admit(ip) ==
  /\ Allows(ip)
  /\ bucket' = [bucket EXCEPT ![ip] =
       IF Limit = 0 THEN @
       ELSE IF @.age = Window THEN [count |-> 1, age |-> 0]
       ELSE [@ EXCEPT !.count = bucket[ip].count + 1]]
  /\ admitted' = [admitted EXCEPT ![ip][0] = @ + 1]

\* One unit of time passes.
RateTick ==
  /\ bucket' = [ip \in Clients |->
       IF bucket[ip].age + 1 >= Window THEN NoBucket
       ELSE [bucket[ip] EXCEPT !.age = @ + 1]]
  /\ admitted' = [ip \in Clients |->
       [a \in 0..(Window - 1) |-> IF a = 0 THEN 0 ELSE admitted[ip][a - 1]]]

-----------------------------------------------------------------------------
Lately(ip) == MapThenSumSet(LAMBDA a : admitted[ip][a], 0..(Window - 1))

\* A window holds at most the limit.  In a stretch of a window's length that two
\* windows share, a client can get through more, but never twice the limit: the
\* request that opened the former window is outside.
AdmittedBound ==
  Limit # 0 => \A ip \in Clients :
    /\ Lately(ip) < 2 * Limit
    /\ bucket[ip].count <= Limit
=============================================================================
