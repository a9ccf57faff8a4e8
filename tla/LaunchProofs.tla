---------------------------- MODULE LaunchProofs ----------------------------
(***************************************************************************)
(* What holds of Launch for every set of bundles, with namespace lists and *)
(* argument lists of any length, in any host.                              *)
(***************************************************************************)
EXTENDS LaunchProperties, BundleProofs

Given == config \in Bundles /\ host \in Hosts

Early == {"load", "build", "prepare", "clone"}

(* How far the parent has got with the bundle, and that a child exists only
   when it got all the way. *)
Resolved ==
  /\ parent \in Early => child = "none"
  /\ parent \in {"build", "prepare", "clone"} \/ child # "none" => StartAccepts(spec)
  /\ parent \in {"prepare", "clone"} \/ child # "none"
       => /\ ~NullRead(spec.namespaces)
          /\ flags = CloneFlags(ContextNamespaces(spec.namespaces))
  /\ parent = "clone" \/ child # "none" => spec.process.args # <<>>
  /\ parent = "segv" => NullRead(spec.namespaces)

(* The byte is written once, by a child that has left the host's root or by one
   that never will, and the parent goes on only with the former. *)
Handshake ==
  /\ child \in {"none"} \cup (Setup \ {"leave"}) => byte = "none"
  /\ child \in {"chdir", "detach", "report", "exec", "program"} => root # "host"
  /\ byte = "1" => root # "host"
  /\ parent \in {"finish", "ok"} => byte = "1"

(* Nothing is mounted before the mount below is private. *)
Private ==
  /\ child = "none" => seen = {}
  /\ child \in {"mounts", "rebind", "pivot"} => base = "private"
  /\ MountsStayInside

Inv == Given /\ Resolved /\ Handshake /\ Private

LEMMA InitInv == Init => Inv
BY DEF Init, Inv, Given, Resolved, Early, Handshake, Private, MountsStayInside, Setup

LEMMA GivenStep == Given /\ [Next]_vars => Given' /\ UNCHANGED <<config, host, spec>>
BY DEF Given, Next, vars, given, parentVars, mountVars, spec, ParentStep, ChildStep, LoadBundle,
       BuildContext, Prepare, Clone, CloseWriteEnd, Read, Finish, Abandon, Reap, Crash,
       CloseReadEnd, MakePrivate, BindSelf, RetryPrivate, MountDefaults, BindNewRoot, PivotRoot,
       Mounting, ChdirNewRoot, DetachOldRoot, ReportReady, ReportError, Tell, Exec, Leave, End

LEMMA ResolvedStep ==
  ASSUME Given, Resolved, [Next]_vars
  PROVE  Resolved'
<1> USE DEF Resolved, Early
<1>1. UNCHANGED <<config, host, spec>>
  BY GivenStep
<1>2. CASE LoadBundle
  BY <1>1, <1>2 DEF LoadBundle, given
<1>3. CASE BuildContext
  BY <1>1, <1>3 DEF BuildContext
<1>4. CASE Prepare
  BY <1>1, <1>4 DEF Prepare, given
<1>5. CASE Clone
  BY <1>1, <1>5 DEF Clone, given
<1>6. CASE CloseWriteEnd \/ Read \/ Finish \/ Abandon \/ Reap \/ Crash
  BY <1>1, <1>6 DEF CloseWriteEnd, Read, Verdict, Finish, Abandon, Reap, Gone, Crash, Returned, given
<1>7. CASE ChildStep \/ End
  <2>1. UNCHANGED <<parent, flags>> /\ child # "none"
    BY <1>7 DEF ChildStep, End, CloseReadEnd, MakePrivate, BindSelf, RetryPrivate, MountDefaults,
                BindNewRoot, PivotRoot, Mounting, ChdirNewRoot, DetachOldRoot, ReportReady,
                ReportError, Tell, Exec, Leave, Setup, given, parentVars
  <2>2. QED
    BY <1>1, <2>1
<1>8. CASE UNCHANGED vars
  BY <1>1, <1>8 DEF vars, given, parentVars
<1>9. QED
  BY <1>2, <1>3, <1>4, <1>5, <1>6, <1>7, <1>8 DEF Next, ParentStep

LEMMA HandshakeStep ==
  ASSUME Handshake, Resolved, [Next]_vars
  PROVE  Handshake'
<1> USE DEF Handshake, Setup
<1>1. CASE LoadBundle \/ BuildContext \/ Prepare
  BY <1>1 DEF LoadBundle, BuildContext, Prepare, mountVars
<1>2. CASE Clone
  BY <1>2 DEF Clone, Resolved, Early, mountVars
<1>3. CASE CloseWriteEnd \/ Finish \/ Abandon \/ Reap \/ Crash
  BY <1>3 DEF CloseWriteEnd, Finish, Abandon, Reap, Gone, Crash, Returned, mountVars
<1>4. CASE Read
  BY <1>4 DEF Read, Verdict, mountVars
<1>5. CASE CloseReadEnd \/ MakePrivate \/ BindSelf \/ RetryPrivate \/ MountDefaults \/ BindNewRoot
  BY <1>5 DEF CloseReadEnd, MakePrivate, BindSelf, RetryPrivate, MountDefaults, BindNewRoot,
              Mounting, parentVars, mountVars
<1>6. CASE PivotRoot \/ ChdirNewRoot \/ DetachOldRoot
  BY <1>6 DEF PivotRoot, Mounting, ChdirNewRoot, DetachOldRoot, parentVars, mountVars
<1>7. CASE ReportReady
  BY <1>7 DEF ReportReady, Tell, parentVars, mountVars
<1>8. CASE ReportError
  BY <1>8 DEF ReportError, Tell, parentVars, mountVars
<1>9. CASE Exec \/ Leave \/ End
  BY <1>9 DEF Exec, Leave, End, parentVars, mountVars
<1>10. CASE UNCHANGED vars
  BY <1>10 DEF vars, parentVars, mountVars
<1>11. QED
  BY <1>1, <1>2, <1>3, <1>4, <1>5, <1>6, <1>7, <1>8, <1>9, <1>10 DEF Next, ParentStep, ChildStep

LEMMA PrivateStep ==
  ASSUME Private, Resolved, [Next]_vars
  PROVE  Private'
<1> USE DEF Private, MountsStayInside, OwnMounts
<1>1. CASE LoadBundle \/ Prepare \/ CloseWriteEnd \/ Read \/ Finish \/ Abandon \/ Crash
  BY <1>1 DEF LoadBundle, Prepare, CloseWriteEnd, Read, Finish, Abandon, Crash, mountVars, given
<1>2. CASE BuildContext
  BY <1>2 DEF BuildContext, Resolved, Early, mountVars
<1>3. CASE Clone
  BY <1>3 DEF Clone, mountVars, given
<1>4. CASE Reap
  BY <1>4 DEF Reap, Gone, mountVars, given
<1>5. CASE CloseReadEnd \/ MakePrivate \/ RetryPrivate \/ ChdirNewRoot \/ Exec \/ Leave \/ End
  BY <1>5 DEF CloseReadEnd, MakePrivate, RetryPrivate, ChdirNewRoot, Exec, Leave, End, Setup,
              mountVars, given
<1>6. CASE BindSelf
  BY <1>6 DEF BindSelf, Mounting, Reach, OwnMounts, given
<1>7. CASE MountDefaults \/ BindNewRoot \/ PivotRoot
  <2>1. base = "private" /\ base' = base /\ flags' = flags /\ child' # "none"
    BY <1>7 DEF MountDefaults, BindNewRoot, PivotRoot, Mounting, given
  <2>2. OwnMounts => seen' = seen
    BY <2>1, <1>7 DEF MountDefaults, BindNewRoot, PivotRoot, Mounting, Reach
  <2>3. QED
    BY <2>1, <2>2
<1>8. CASE DetachOldRoot
  BY <1>8 DEF DetachOldRoot, Reach, given
<1>9. CASE ReportReady \/ ReportError
  BY <1>9 DEF ReportReady, ReportError, Tell, mountVars, given
<1>10. CASE UNCHANGED vars
  BY <1>10 DEF vars, mountVars, given
<1>11. QED
  BY <1>1, <1>2, <1>3, <1>4, <1>5, <1>6, <1>7, <1>8, <1>9, <1>10 DEF Next, ParentStep, ChildStep

LEMMA Invariance == Spec => []Inv
<1>1. Inv /\ [Next]_vars => Inv'
  BY GivenStep, ResolvedStep, HandshakeStep, PrivateStep DEF Inv
<1>2. QED
  BY InitInv, <1>1, PTL DEF Spec

-----------------------------------------------------------------------------
(* "Child emits readiness only after rootfs/setup stage completes", whatever
   fails and whoever is killed. *)
THEOREM ReadyOutsideHostRoot == Spec => []ReadyMeansPivoted
<1>1. Inv => ReadyMeansPivoted
  BY DEF Inv, Handshake, ReadyMeansPivoted
<1>2. QED
  BY <1>1, Invariance, PTL

(* With a mount namespace of its own the container's mounts under the rootfs
   stay out of the caller's, shared or not. *)
THEOREM MountsContained == Spec => []MountsStayInside
<1>1. Inv => MountsStayInside
  BY DEF Inv, Private
<1>2. QED
  BY <1>1, Invariance, PTL

(* A child is cloned only for a bundle that nk_oci_spec_validate would accept,
   although start does not call it. *)
THEOREM OnlyValidCloned == Spec => []ClonedMeansValid
<1>1. Inv => ClonedMeansValid
  BY DEF Inv, Resolved, ClonedMeansValid, Validate, StartAccepts
<1>2. QED
  BY <1>1, Invariance, PTL

(* The list of a config, and what Load makes of it. *)
LEMMA ListFacts ==
  ASSUME Given
  PROVE  /\ config.namespaces \in Seq(Entries)
         /\ host.memory => spec.namespaces = ParseNamespaces(config.namespaces)
         /\ ~host.memory => /\ ~NullRead(spec.namespaces)
                            /\ CloneFlags(ContextNamespaces(spec.namespaces)) = {}
<1>1. config.namespaces \in Seq(Entries) /\ host.memory \in BOOLEAN
  BY BundlesAssumption DEF Given, Configs, Hosts
<1>2. ~host.memory => spec.namespaces.len = 0
  BY DEF spec, Load, ParseLinux, NoNamespaces
<1>3. ~host.memory => CloneFlags(ContextNamespaces(spec.namespaces)) = {}
  <2>1. ~host.memory => DOMAIN ContextNamespaces(spec.namespaces) = {}
    BY <1>2 DEF ContextNamespaces
  <2>2. QED
    BY <2>1 DEF CloneFlags
<1>4. QED
  BY <1>1, <1>2, <1>3 DEF spec, Load, ParseLinux, NullRead

(* ns-runtime dies of a NULL type for exactly the lists in which a malformed
   entry precedes a well-formed one, whatever their length. *)
THEOREM DiesOnHoleOnly == Spec => []SegvExactlyOnHole
<1>1. Inv => SegvExactlyOnHole
  <2>1. SUFFICES ASSUME Inv
                 PROVE  SegvExactlyOnHole
    OBVIOUS
  <2>2. NullRead(ParseNamespaces(config.namespaces)) <=> HasHole(config.namespaces)
    BY <2>1, ListFacts, NullReadOnlyOnHole DEF Inv
  <2>3. parent = "segv" => HasHole(config.namespaces)
    BY <2>1, <2>2, ListFacts DEF Inv, Resolved
  <2>4. child # "none" /\ host.memory => ~HasHole(config.namespaces)
    BY <2>1, <2>2, ListFacts DEF Inv, Resolved
  <2>5. QED
    BY <2>3, <2>4 DEF SegvExactlyOnHole, HasHole
<1>2. QED
  BY <1>1, Invariance, PTL

(* clone is asked for a namespace of each type that is listed without a path, and
   for a pid namespace if a type nobody knows is among them, for lists of any
   length; if the lists could not be allocated it is asked for none at all. *)
THEOREM IsolatedAsListed == Spec => []IsolationAsListed
<1>1. Inv => IsolationAsListed
  <2>1. SUFFICES ASSUME Inv, child # "none"
                 PROVE  IsolationAsListed
    BY DEF IsolationAsListed
  <2>2. ASSUME ~host.memory
        PROVE  flags = {}
    BY <2>1, <2>2, ListFacts DEF Inv, Resolved
  <2>3. CASE ~host.memory
    BY <2>2, <2>3 DEF IsolationAsListed
  <2>4. CASE host.memory
    <3> DEFINE list == config.namespaces
               made == {e \in Range(list) : WellFormed(e) /\ ~e.path}
    <3>1. list \in Seq(Entries) /\ ~NullRead(ParseNamespaces(list))
      BY <2>1, <2>4, ListFacts DEF Inv, Resolved
    <3>2. flags = {ContextKind(list[i].type) : i \in {j \in Good(list) : ~list[j].path}}
      BY <2>1, <2>4, <3>1, ListFacts, FlagsAsListed DEF Inv, Resolved
    <3>3. made = {list[i] : i \in {j \in Good(list) : ~list[j].path}}
      BY DEF Range, Good
    <3>4. flags = {ContextKind(e.type) : e \in made}
      BY <3>2, <3>3
    <3>5. \A e \in made : ContextKind(e.type) = IF e.type \in Kinds THEN e.type ELSE "pid"
      BY DEF ContextKind
    <3> HIDE DEF made
    <3>6. flags = {e.type : e \in {x \in made : x.type \in Kinds}}
                    \cup {"pid" : e \in {x \in made : x.type \notin Kinds}}
      BY <3>4, <3>5
    <3>7. QED
      BY <2>4, <3>6 DEF made, IsolationAsListed
  <2>5. QED
    BY <2>3, <2>4
<1>2. QED
  BY <1>1, Invariance, PTL
=============================================================================
