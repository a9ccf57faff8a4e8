------------------------------ MODULE MCLaunch ------------------------------
(***************************************************************************)
(* The bundles of the TLC runs of Launch.                                  *)
(***************************************************************************)
EXTENDS LaunchProperties, SequencesExt

New(type)    == [type |-> type, path |-> FALSE]
Joined(type) == [type |-> type, path |-> TRUE]

Elements == {New("pid"), New("mount"), Joined("mount"), New("other"), New("malformed")}

(* Every list of two, and of three where an entry is malformed. *)
Lists == SeqOf(Elements, 2)
           \cup {l \in [1..3 -> Elements] : \E i \in 1..3 : ~WellFormed(l[i])}

Usual == [json |-> TRUE, root |-> TRUE, process |-> TRUE, args |-> <<"string">>,
          namespaces |-> <<New("pid"), New("mount")>>]

(* Every list in an otherwise usual config, and every other deviation. *)
AllBundles ==
  {[Usual EXCEPT !.namespaces = list] : list \in Lists}
    \cup {[Usual EXCEPT !.args = a] : a \in SeqOf({"string", "other"}, 2)}
    \cup {[Usual EXCEPT !.json = j, !.root = r, !.process = p, !.args = a] :
            j, r, p \in BOOLEAN, a \in {<<>>, <<"string">>}}
=============================================================================
