------------------------------- MODULE Bundle -------------------------------
(***************************************************************************)
(* A bundle's config.json as src/src/oci/spec.c reads it, and what         *)
(* nk_container_start makes of it for the launch.  Only what decides       *)
(* whether and how a container is launched is kept: strings are named by   *)
(* what the code compares them with.                                       *)
(*                                                                         *)
(* A config: does it exist and parse (json), is there a string at          *)
(* root.path (root), is process an object with an array args (process),    *)
(* the elements of that array, and of linux.namespaces (empty also when    *)
(* there is no such array).                                                *)
(***************************************************************************)
EXTENDS Sequences, FiniteSets, Naturals

Kinds == {"pid", "network", "ipc", "uts", "mount", "user", "cgroup"}

(* An element of linux.namespaces has a type the runtime knows, another type,
   or is malformed: no object, or its type is no string. *)
Entries == [type : Kinds \cup {"other"}, path : BOOLEAN]
             \cup {[type |-> "malformed", path |-> FALSE]}

Configs == [json : BOOLEAN, root : BOOLEAN, process : BOOLEAN,
            args : Seq({"string", "other"}), namespaces : Seq(Entries)]

WellFormed(entry) == entry.type # "malformed"

(* What calloc left at an index nothing was stored at: a NULL type. *)
Hole == [type |-> "null", path |-> FALSE]

-----------------------------------------------------------------------------
(* spec.c *)

(* Mutant of StoredCount: the length of the array is the length of the list. *)
StoredCount_All(list) == Len(list)

(* namespaces_len is incremented for each entry stored ... *)
StoredCount(list) == Cardinality({i \in DOMAIN list : WellFormed(list[i])})

(* ... while the entry goes to the index it has in the JSON array. *)
ParseNamespaces(list) ==
  [slots |-> [i \in DOMAIN list |-> IF WellFormed(list[i]) THEN list[i] ELSE Hole],
   len   |-> StoredCount(list)]

NoNamespaces == [slots |-> <<>>, len |-> 0]

(* Where the array of namespaces, or the object around it, cannot be allocated
   the spec simply has none. *)
ParseLinux(config, memory) ==
  IF memory THEN ParseNamespaces(config.namespaces) ELSE NoNamespaces

(* NULL (set is FALSE) unless args is an array; its elements that are no strings
   count in args_len. *)
ParseProcess(config) ==
  [set |-> config.process, args |-> IF config.process THEN config.args ELSE <<>>]

(* parse_root: NULL without a string at path. *)
ParseRoot(config) == config.root

(* nk_oci_spec_load *)
Load(config, memory) ==
  [loaded     |-> config.json,
   root       |-> ParseRoot(config),
   process    |-> ParseProcess(config),
   namespaces |-> ParseLinux(config, memory)]

(* nk_oci_spec_validate, which create calls and start does not. *)
Validate(spec) == spec.loaded /\ spec.root /\ spec.process.set /\ spec.process.args # <<>>

-----------------------------------------------------------------------------
(* nk_container_start and nk_container_exec *)

StartAccepts(spec) == spec.loaded /\ spec.process.set /\ spec.root

(* strcmp is given the type of every entry below namespaces_len. *)
NullRead(parsed) == \E i \in 1..parsed.len : parsed.slots[i] = Hole

(* An unknown type leaves the calloc'ed 0, which is NK_NS_PID. *)
ContextKind(type) == IF type \in Kinds THEN type ELSE "pid"

(* ctx.namespaces[i].enable is set for every i. *)
ContextNamespaces(parsed) ==
  [i \in 1..parsed.len |-> [kind |-> ContextKind(parsed.slots[i].type),
                            path |-> parsed.slots[i].path]]

(* Mutant of CloneFlags: the path is not looked at. *)
CloneFlags_AnyPath(namespaces) == {namespaces[i].kind : i \in DOMAIN namespaces}

(* nk_namespace_get_clone_flags: a namespace given by path is not made anew; it
   is not joined either, since nk_container_setup_namespaces has no caller. *)
CloneFlags(namespaces) ==
  {namespaces[i].kind : i \in {j \in DOMAIN namespaces : ~namespaces[j].path}}

(* What execve is given: args is an array of pointers, NULL where the element
   was no string, and its first NULL ends it. *)
Argv(spec) ==
  LET complete == {n \in 0..Len(spec.process.args) : \A i \in 1..n : spec.process.args[i] = "string"}
      last == CHOOSE n \in complete : \A m \in complete : m <= n
  IN SubSeq(spec.process.args, 1, last)
=============================================================================
