-------------------------- MODULE ManagedResources --------------------------
(***************************************************************************)
(* What a controller of this provider promises about the cloud resources   *)
(* it manages for Kubernetes objects, whatever crashes, stale reads and    *)
(* lost answers there are: it creates only for an object that holds its    *)
(* finalizer, terminates only what belongs to an object deleted without    *)
(* the keep policy, and lets such an object go only once every resource it *)
(* has learnt of is on its way out.  Resources may also be lost, and a     *)
(* created resource may never be learnt of: no more than this is promised. *)
(***************************************************************************)

CONSTANTS
    Objects,     \* Kubernetes objects
    Resources    \* cloud resources, those not created yet included

VARIABLES
    life,        \* [Objects -> Lives]
    res,         \* [Resources -> Fates]
    title,       \* [Resources -> SUBSET Objects]: the objects it belongs to
    known        \* [Objects -> SUBSET Resources]: what was learnt from status

vars == <<life, res, title, known>>

\* "new": without the finalizer; "held": with it; "doomed": deletion asked for;
\* "spared": keep set after that; "kept": deletion asked for with keep on;
\* "released" and "left": gone, without keep and with it.
Lives == {"new", "held", "doomed", "spared", "kept", "released", "left"}
Present(o) == life[o] \notin {"released", "left"}
Fates == {"none", "running", "ending", "ended"}

Init ==
    /\ life = [o \in Objects |-> "new"]
    /\ res \in [Resources -> {"none", "running"}]
    /\ title \in [Resources -> SUBSET Objects]
    /\ known = [o \in Objects |-> {}]

\* Steps of an object's life; letting a doomed one go is Release.
LifeStep ==
    {<<"new", "held">>, <<"new", "released">>, <<"new", "left">>,
     <<"held", "doomed">>, <<"held", "kept">>, <<"doomed", "spared">>,
     <<"spared", "released">>, <<"kept", "left">>}

Live(o) ==
    /\ \E l \in Lives : <<life[o], l>> \in LifeStep /\ life' = [life EXCEPT ![o] = l]
    /\ UNCHANGED <<res, title, known>>

Release(o) ==
    /\ life[o] = "doomed"
    /\ \A r \in known[o] : res[r] \in {"ending", "ended"}
    /\ life' = [life EXCEPT ![o] = "released"]
    /\ UNCHANGED <<res, title, known>>

\* The status that a reconcile reads, from a cache that may be old, names a
\* resource of the object.
Learn(o, r) ==
    /\ life[o] # "new" /\ o \in title[r]
    /\ known' = [known EXCEPT ![o] = @ \union {r}]
    /\ UNCHANGED <<life, res, title>>

\* A controller that finds its resources by name knows them from the start.
Create(o, r) ==
    /\ Present(o) /\ life[o] # "new" /\ res[r] = "none"
    /\ res' = [res EXCEPT ![r] = "running"]
    /\ \E owners \in SUBSET Objects :
         o \in owners /\ title' = [title EXCEPT ![r] = owners]
    /\ known' \in {known, [known EXCEPT ![o] = @ \union {r}]}
    /\ UNCHANGED life

\* A late reconcile may still terminate for an object that has been released.
Terminate(o, r) ==
    /\ life[o] \in {"doomed", "spared", "released"} /\ o \in title[r] /\ res[r] = "running"
    /\ res' = [res EXCEPT ![r] = "ending"]
    /\ UNCHANGED <<life, title, known>>

\* The cloud finishes a termination, or the resource is lost without one.
End(r) ==
    /\ res[r] \in {"running", "ending"}
    /\ res' = [res EXCEPT ![r] = "ended"]
    /\ UNCHANGED <<life, title, known>>

Next ==
    \/ \E o \in Objects : Live(o) \/ Release(o)
    \/ \E o \in Objects, r \in Resources : Learn(o, r) \/ Create(o, r) \/ Terminate(o, r)
    \/ \E r \in Resources : End(r)

Spec == Init /\ [][Next]_vars
=============================================================================
