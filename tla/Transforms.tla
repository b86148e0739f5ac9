------------------------------ MODULE Transforms ------------------------------
(***************************************************************************)
(* ApplyTransforms: the entries a vault reveals go through the list of     *)
(* spec.transforms, one transform after the other, up to the first that    *)
(* fails.                                                                  *)
(*                                                                         *)
(* A key is a sequence of letters, for keys are joined, prefixed and put   *)
(* in upper case.  Of a text only what the transforms tell apart is kept:  *)
(* how often it is the base64 of another one, and what is inside.          *)
(***************************************************************************)
EXTENDS Integers, Sequences, FiniteSets

CONSTANTS
    Plain,      \* what a text may be that is not JSON
    Values,     \* the JSON values that are met, with their parts
    Nesting,    \* how deep objects are nested in each of them
    MaxNesting, \* and how deep encoding/json allows them to be
    Inputs,     \* the entries that may be revealed: functions from keys to texts
    Lists       \* the values of spec.transforms

(* A letter and its upper case, which sorts before it, "_" in between. *)
Letters  == <<"A", "B", "_", "a", "b">>
Alphabet == {"A", "B", "_", "a", "b"}
Capital  == [c \in Alphabet |-> CASE c = "a" -> "A" [] c = "b" -> "B" [] OTHER -> c]
Code(c)  == CHOOSE i \in DOMAIN Letters : Letters[i] = c

Keys     == Seq(Alphabet)
Texts    == [base64 : Nat, of : Plain \cup Values]

(***************************************************************************)
(* The JSON values: an object maps names to values; another value is known *)
(* by the text it is stored as: a string by itself, a number, a Boolean,   *)
(* null or an array by its formatting.                                     *)
(***************************************************************************)
Object(members) == [kind |-> "object", members |-> members]
Leaf(text)      == [kind |-> "leaf", text |-> text]

IsValue(v) ==
    \/ v.kind = "leaf" /\ v.text \in Texts
    \/ /\ v.kind = "object" /\ DOMAIN v.members \subseteq Keys /\ IsFiniteSet(DOMAIN v.members)
       /\ \A name \in DOMAIN v.members :
            v.members[name] \in Values /\ Nesting[v.members[name]] < Nesting[v]

(* What is revealed, and what a Secret holds *)
IsEntries(in) == DOMAIN in \subseteq Keys /\ in \in [DOMAIN in -> Texts]

TransformTypes == {"prefix", "suffix", "rename", "base64Decode", "jsonExpand"}

(* The fields of a transform that its type gives a meaning *)
IsTransform(t) ==
    /\ t.type \in {"prefix", "suffix"} => t.value \in Keys
    /\ t.type = "rename"               => t.from \in Keys /\ t.to \in Keys
    /\ t.type = "base64Decode"         => t.keys \in Seq(Keys)
    /\ t.type = "jsonExpand"           => t.key \in Keys

ASSUME TransformsAssumption ==
    /\ Plain \cap Values = {}
    /\ MaxNesting \in Nat /\ Nesting \in [Values -> 0..MaxNesting]
    /\ \A v \in Values : IsValue(v)
    /\ \A in \in Inputs : IsEntries(in)
    /\ \A l \in Lists : Len(l) \in Nat /\ \A i \in 1..Len(l) : IsTransform(l[i])

VARIABLES
    input,      \* the entries as they were revealed
    list,       \* the transforms
    index,      \* the one to be applied next
    out,        \* the entries as they are now
    failed,     \* transform number index could not be applied
    alone       \* history: what has become of each entry by itself, and
                \* whether no transform failed on it

vars == <<input, list, index, out, failed, alone>>

-----------------------------------------------------------------------------
(* The transforms *)

ToUpper(key) == [i \in 1..Len(key) |-> Capital[key[i]]]

(* sort.Strings: the byte order, a prefix before what it is a prefix of *)
Before(s, t) ==
    \E i \in (1..Len(t)) \cap (1..(Len(s) + 1)) :
        /\ i <= Len(s) => Code(s[i]) < Code(t[i])
        /\ \A j \in 1..(i - 1) : s[j] = t[j]

(* Mutant: the names in the reverse order. *)
FirstName(names) == CHOOSE name \in names : \A n \in names \ {name} : Before(name, n)

(* Of the names of members with one flat name, the last one that is visited *)
LastName(names) == CHOOSE name \in names : \A n \in names \ {name} : Before(n, name)

(* The keys get t.value in front of them, or at their end. *)
Affixed(key, t) == IF t.type = "prefix" THEN t.value \o key ELSE key \o t.value

Affix(in, t) ==
    [a \in {Affixed(k, t) : k \in DOMAIN in} |-> in[CHOOSE k \in DOMAIN in : Affixed(k, t) = a]]

(***************************************************************************)
(* flattenJSON, with the flat names short of the prefix it is called with: *)
(* of two members with one flat name the later one stays.                  *)
(***************************************************************************)
Prefixed(in, prefix) == Affix(in, [type |-> "prefix", value |-> prefix])

Flat[v \in Values] ==
    IF v.kind = "leaf" THEN [key \in {<<>>} |-> v.text]
    ELSE LET Member(name) == Prefixed(Flat[v.members[name]], <<"_">> \o ToUpper(name))
         IN  [key \in UNION {DOMAIN Member(name) : name \in DOMAIN v.members} |->
                Member(LastName({name \in DOMAIN v.members : key \in DOMAIN Member(name)}))[key]]

Without(in, key) == [k \in DOMAIN in \ {key} |-> in[k]]

(* What is in either, and in the first where it is in both *)
With(entries, in) ==
    [k \in DOMAIN entries \cup DOMAIN in |-> IF k \in DOMAIN entries THEN entries[k] ELSE in[k]]

Rename(in, t) ==
    IF t.from = t.to \/ t.from \notin DOMAIN in THEN in
    ELSE With([k \in {t.to} |-> in[t.from]], Without(in, t.from))

(* The keys listed, one by one as often as they are listed, or all of them. *)
Decodings(key, t) ==
    IF t.keys = <<>> THEN 1 ELSE Cardinality({i \in DOMAIN t.keys : t.keys[i] = key})

Base64Decode(in, t) ==
    [k \in DOMAIN in |-> [in[k] EXCEPT !.base64 = @ - Decodings(k, t)]]

Expanded(in, t) == Prefixed(Flat[in[t.key].of], ToUpper(t.key))

JSONExpand(in, t) ==
    IF t.key \notin DOMAIN in THEN in ELSE With(Expanded(in, t), Without(in, t.key))

(* Mutant: a key that is already there is overwritten. *)
RenameOver(in, t) == t.from # <<>> /\ t.to # <<>>

CanRename(in, t) ==
    /\ t.from # <<>> /\ t.to # <<>>
    /\ t.from # t.to /\ t.from \in DOMAIN in => t.to \notin DOMAIN in

CanDecode(in, t) == \A k \in DOMAIN in : Decodings(k, t) <= in[k].base64

CanExpand(in, t) ==
    /\ t.key # <<>>
    /\ t.key \in DOMAIN in =>
         /\ in[t.key].base64 = 0 /\ in[t.key].of \in Values /\ in[t.key].of.kind = "object"
         /\ DOMAIN Expanded(in, t) \cap DOMAIN Without(in, t.key) = {}

(* Mutant: what is not base64 is decoded, too. *)
CanDecodeAnything(in, t) ==
    /\ t.type \in TransformTypes
    /\ t.type = "rename" => CanRename(in, t)
    /\ t.type = "jsonExpand" => CanExpand(in, t)

(* applyOne returns no error. *)
CanApply(in, t) ==
    /\ t.type \in TransformTypes
    /\ t.type = "rename" => CanRename(in, t)
    /\ t.type = "base64Decode" => CanDecode(in, t)
    /\ t.type = "jsonExpand" => CanExpand(in, t)

(* applyOne *)
ApplyOne(in, t) ==
    CASE t.type \in {"prefix", "suffix"} -> Affix(in, t)
      [] t.type = "rename"               -> Rename(in, t)
      [] t.type = "base64Decode"         -> Base64Decode(in, t)
      [] t.type = "jsonExpand"           -> JSONExpand(in, t)

-----------------------------------------------------------------------------
(* ApplyTransforms *)

(* What t makes of every entry by itself *)
Each(t) ==
    [k \in DOMAIN alone |->
        IF alone[k].ok /\ CanApply(alone[k].entries, t)
        THEN [ok |-> TRUE, entries |-> ApplyOne(alone[k].entries, t)]
        ELSE [ok |-> FALSE, entries |-> alone[k].entries]]

Init ==
    /\ input \in Inputs /\ list \in Lists
    /\ index = 1
    /\ out = input
    /\ failed = FALSE
    /\ alone = [k \in DOMAIN input |-> [ok |-> TRUE, entries |-> [j \in {k} |-> input[k]]]]

Apply ==
    /\ ~failed /\ index <= Len(list) /\ CanApply(out, list[index])
    /\ out' = ApplyOne(out, list[index])
    /\ alone' = Each(list[index])
    /\ index' = index + 1
    /\ UNCHANGED <<input, list, failed>>

(* The TransformError carries the index; out is left as it is. *)
Fail ==
    /\ ~failed /\ index <= Len(list) /\ ~CanApply(out, list[index])
    /\ failed' = TRUE
    /\ UNCHANGED <<input, list, index, out, alone>>

Next == Apply \/ Fail

Spec == Init /\ [][Next]_vars

-----------------------------------------------------------------------------
(* Properties *)

(* Nothing is decoded that is not base64, and nothing else than texts comes out. *)
TypeOK ==
    /\ index \in 1..(Len(list) + 1)
    /\ failed \in BOOLEAN /\ (failed => index <= Len(list))
    /\ IsEntries(out)

(* No two of these have a key in common. *)
Apart(each) ==
    \A j, k \in DOMAIN each :
        j # k => DOMAIN each[j].entries \cap DOMAIN each[k].entries = {}

(* What they are together *)
Together(each) ==
    [key \in UNION {DOMAIN each[k].entries : k \in DOMAIN each} |->
        each[CHOOSE k \in DOMAIN each : key \in DOMAIN each[k].entries].entries[key]]

(***************************************************************************)
(* The entries do not influence each other: a transform that is well       *)
(* formed fails exactly when it does on one entry alone or has two entries *)
(* collide, so that none is ever lost to another, and what comes out is    *)
(* what each entry alone gives.                                            *)
(***************************************************************************)
EntriesIndependent ==
    /\ Apart(alone) /\ \A k \in DOMAIN alone : alone[k].ok
    /\ out = Together(alone)
    /\ failed => \/ ~CanApply(<<>>, list[index])
                 \/ \E k \in DOMAIN alone : ~Each(list[index])[k].ok
                 \/ ~Apart(Each(list[index]))

(* A leaf of a member, as one of the object that has the member *)
Below(name, l) ==
    [path |-> <<name>> \o l.path, name |-> <<"_">> \o ToUpper(name) \o l.name, text |-> l.text]

(* The leaves of a value, each with the path to it and the flat name it has *)
Leaves[v \in Values] ==
    IF v.kind = "leaf" THEN {[path |-> <<>>, name |-> <<>>, text |-> v.text]}
    ELSE UNION {{Below(name, l) : l \in Leaves[v.members[name]]} : name \in DOMAIN v.members}

(* Of two paths, the one that is visited later. *)
Later(p, q) == \E i \in DOMAIN p \cap DOMAIN q :
                 Before(q[i], p[i]) /\ \A j \in 1..(i - 1) : p[j] = q[j]

(* The flat name that a leaf has once key is expanded *)
FlatName(key, l) == ToUpper(key) \o l.name

(* None of these leaves has the name of l and is visited later. *)
IsLast(l, leaves) == \A m \in leaves : m.name = l.name => ~Later(m.path, l.path)

(* The key the next transform expands, if it is a jsonExpand and there is one. *)
BeingExpanded ==
    {list[i].key : i \in {j \in {index} \cap DOMAIN list : list[j].type = "jsonExpand"}}
    \cap DOMAIN out

(***************************************************************************)
(* jsonExpand replaces the key by the flat names of the leaves, all of     *)
(* them and nothing else; under each it stores the leaf with this name     *)
(* that is last in the order of the paths, so that what is stored, and its *)
(* hash, do not depend on the order of a map.                              *)
(***************************************************************************)
ExpansionTakesLast ==
    [][\A key \in BeingExpanded : index' # index =>
         LET leaves == Leaves[out[key].of] IN
         /\ DOMAIN out' = (DOMAIN out \ {key}) \cup {FlatName(key, l) : l \in leaves}
         /\ \A l \in leaves : IsLast(l, leaves) => out'[FlatName(key, l)] = l.text]_vars
=============================================================================
