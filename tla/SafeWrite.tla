------------------------------ MODULE SafeWrite ------------------------------
(***************************************************************************)
(* SafeWrite validation of workloads (validateSafeTransition in            *)
(* internal/server/safe_write.go): the preview of a write must hold no     *)
(* unsafe value and must not weaken a control the object already has.      *)
(*                                                                         *)
(* The validator walks the two objects key by key, and every key is judged *)
(* by itself, so one control at a time is modelled: a workload is its list *)
(* of containers, each with a name and the value of that control.  Values  *)
(* are pairs of a JSON type and what the rules tell apart.                 *)
(***************************************************************************)
EXTENDS Naturals, Sequences, FiniteSets

CONSTANTS
  ContainerNames,  \* names of containers
  MaxContainers    \* bound: containers of a workload

VARIABLES
  control,    \* the control under consideration
  workload,   \* the containers of the object in the cluster
  held        \* history: held[n]: the values container n had since others last changed the object

safeVars == <<control, workload, held>>

Missing == <<"missing", "">>
Null == <<"null", "">>

\* The controls by the rule that applies to them, with the values to tell apart.
Values ==
  [allowPrivilegeEscalation |-> {Missing, Null, <<"bool", TRUE>>, <<"bool", FALSE>>},
   runAsNonRoot |-> {Missing, Null, <<"bool", TRUE>>, <<"bool", FALSE>>},
   runAsUser |-> {Missing, Null, <<"number", 0>>, <<"number", 1>>, <<"number", 2>>},
   runAsUserName |-> {Missing, <<"string", "">>, <<"string", "ContainerUser">>, <<"string", "other">>},
   serviceAccountName |-> {Missing, <<"string", "">>, <<"string", "default">>, <<"string", "other">>},
   hostPort |-> {Missing, Null, <<"number", 0>>, <<"number", 1>>},
   seLinuxOptions |-> {Missing, Null, <<"options", 1>>, <<"options", 2>>},
   capabilities |-> {Missing, Null, <<"add", {"NET_RAW"}>>}
                    \cup {<<"drop", d>> : d \in SUBSET {"ALL", "NET_RAW"}},
   seccompProfile |-> {Missing, <<"type", "Unconfined">>, <<"type", "RuntimeDefault">>,
                       <<"type", "Localhost">>}]

Controls == DOMAIN Values

-----------------------------------------------------------------------------
(* The rules.                                                              *)

\* validatePayloadField: values no write may leave behind.
Unsafe(key, value) ==
  CASE key = "allowPrivilegeEscalation" -> value = <<"bool", TRUE>>
    [] key = "runAsNonRoot" -> value = <<"bool", FALSE>>
    [] key = "runAsUser" -> value = <<"number", 0>>
    [] key \in {"runAsUserName", "serviceAccountName"} -> value = <<"string", "other">>
    [] key = "hostPort" -> value = <<"number", 1>>
    [] key = "seLinuxOptions" -> value \notin {Missing, Null}
    [] key = "seccompProfile" -> value = <<"type", "Unconfined">>
    [] key = "capabilities" -> value[1] = "add"

\* stringSet of the drop list; anything else drops nothing.
Drops(value) == IF value[1] = "drop" THEN value[2] ELSE {}

\* validateSecurityControlTransition.
weakened(key, before, after) ==
  CASE key = "allowPrivilegeEscalation" -> before = <<"bool", FALSE>> /\ after # <<"bool", FALSE>>
    [] key = "runAsNonRoot" -> before = <<"bool", TRUE>> /\ after # <<"bool", TRUE>>
    [] key = "runAsUser" ->
         before[1] = "number" /\ before[2] # 0 /\ (after[1] # "number" \/ after[2] = 0)
    [] key = "runAsUserName" ->
         before = <<"string", "ContainerUser">> /\ after # <<"string", "ContainerUser">>
    [] key = "serviceAccountName" ->
         before[1] = "string" /\ before[2] # "" /\ after # before
    [] key = "hostPort" -> FALSE
    [] key = "seLinuxOptions" -> before \notin {Missing, Null} /\ after # before
    [] key = "capabilities" -> ~(Drops(before) \subseteq Drops(after))
    [] key = "seccompProfile" ->
         before[1] = "type" /\ before[2] # "Unconfined" /\ after # before

Named(containers, name) == {i \in DOMAIN containers : containers[i].name = name}

\* Faulty variant: lists are compared position by position.
matchingListValueAt(containers, index, after) ==
  IF index \in DOMAIN after THEN {index} ELSE {}

\* The entry of after that entry index of the list is compared with: the one of
\* the same name, else the one in its place, if there is one.
matchingListValue(containers, index, after) ==
  IF Named(after, containers[index].name) # {}
  THEN Named(after, containers[index].name)
  ELSE IF index \in DOMAIN after THEN {index} ELSE {}

validateSafeTransition(before, after) ==
  /\ \A i \in DOMAIN after : ~Unsafe(control, after[i].value)
  /\ \A i \in DOMAIN before : \A j \in matchingListValue(before, i, after) :
       ~weakened(control, before[i].value, after[j].value)

-----------------------------------------------------------------------------
(* The object, written through the Server and by others.                   *)

\* Container names are unique in an object the API server accepts.
Workloads ==
  UNION {{w \in [1 .. n -> [name : ContainerNames, value : Values[control]]] :
            \A i, j \in 1 .. n : w[i].name = w[j].name => i = j} : n \in 0 .. MaxContainers}

ValueOf(w, n) == w[CHOOSE i \in Named(w, n) : TRUE].value

NamesOf(w) == {w[i].name : i \in DOMAIN w}

HeldSince(w) == [n \in NamesOf(w) |-> {ValueOf(w, n)}]

SafeInit ==
  /\ control \in Controls
  /\ workload \in Workloads
  /\ held = HeldSince(workload)

\* A change planned and committed through the Server in SafeWrite mode.
SafeChangeTo(w) ==
  /\ validateSafeTransition(workload, w)
  /\ workload' = w
  /\ held' = [n \in NamesOf(w) |->
                {ValueOf(w, n)} \cup (IF n \in DOMAIN held THEN held[n] ELSE {})]
  /\ UNCHANGED control

\* What another client or admission writes in between is any workload, as at first.
SafeNext == \E w \in Workloads : SafeChangeTo(w)

SafeSpec == SafeInit /\ [][SafeNext]_safeVars

-----------------------------------------------------------------------------
(* Properties.                                                             *)

\* At least as strict as v: what the security guide lists, per control.
AsStrict(key, v, w) ==
  CASE key = "allowPrivilegeEscalation" -> v = <<"bool", FALSE>> => w = v
    [] key = "runAsNonRoot" -> v = <<"bool", TRUE>> => w = v
    [] key = "runAsUser" -> v \in {<<"number", 1>>, <<"number", 2>>} =>
                              w \in {<<"number", 1>>, <<"number", 2>>}
    [] key = "runAsUserName" -> v = <<"string", "ContainerUser">> => w = v
    [] key = "serviceAccountName" -> v = <<"string", "default">> => w = v
    [] key = "hostPort" -> v # <<"number", 1>> => w # <<"number", 1>>
    [] key = "seLinuxOptions" -> v \notin {Missing, Null} => w = v
    [] key = "capabilities" -> v[1] = "drop" => Drops(v) \subseteq Drops(w)
    [] key = "seccompProfile" -> v \in {<<"type", "RuntimeDefault">>, <<"type", "Localhost">>} => w = v

\* However many SafeWrite changes are made, a container that keeps its name keeps
\* every constraint it had: omitting a field, null, and rewriting, reordering or
\* resizing the container list do not remove it.
ConstraintsKept ==
  \A n \in NamesOf(workload) : \A v \in held[n] : AsStrict(control, v, ValueOf(workload, n))

=============================================================================
