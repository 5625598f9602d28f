------------------------------ MODULE ByteStore ------------------------------
(***************************************************************************)
(* The two databases of bdb_environment as Berkeley DB holds them: keys    *)
(* and values are bytes, which put serialises and get and the listings     *)
(* parse.  (What happens when processes race or die is BdbEnvironment's    *)
(* subject; here one put after the other succeeds.)                        *)
(***************************************************************************)
EXTENDS Machine

CONSTANTS Spaces, Names, Values,   \* the strings put is called with
          Default                  \* what get answers for a variable nobody put

ASSUME ByteStoreAssumption ==
  Spaces \cup Names \cup Values \subseteq Strings \ {Garbage} /\ Default \notin Strings

VARIABLES master,  \* rpmctl.db: set of <<key, value>>
          index,   \* rpmctl_index.db: set of <<secondary key, key>>
          wrote,   \* the last put's buffers: <<bytes allocated, bytes written>>
          defs     \* history: the values that were put

vars == <<master, index, wrote, defs>>

\* __serialize and __unserialize of a pair.  The mutant reads the name where the pair starts.
TupleSize(ns, name) == StringSize(ns) + StringSize(name)
Tuple(ns, name)     == WriteString(ns) \o WriteString(name)
SpaceOf(key)        == ReadString(key, 1).string
NameOfAtStart(key)  == ReadString(key, 1).string
NameOf(key)         == ReadString(key, ReadString(key, 1).end).string

\* __index_package.  The mutant takes the whole key.
IndexPackageWhole(key) == key
IndexPackage(key)      == WriteString(SpaceOf(key))

\* A Dbt of a buffer and its size.
Dbt(bytes, size) == Slice(bytes, 1, size)

Init == /\ master = {} /\ index = {} /\ wrote = {}
        /\ defs = [k \in Spaces \X Names |-> Default]

\* The mutant: the value is added to the key's, as in a database of duplicates.
PutAppends(ns, name, val) ==
  LET key   == Dbt(Tuple(ns, name), TupleSize(ns, name))
      value == Dbt(WriteString(val), StringSize(val))
  IN  /\ master' = master \cup {<<key, value>>}
      /\ index' = index \cup {<<IndexPackage(key), key>>}
      /\ wrote' = {<<TupleSize(ns, name), Len(Tuple(ns, name))>>,
                   <<StringSize(val), Len(WriteString(val))>>,
                   <<StringSize(SpaceOf(key)), Len(IndexPackage(key))>>}
      /\ defs' = [defs EXCEPT ![<<ns, name>>] = val]

Put(ns, name, val) ==
  LET key   == Dbt(Tuple(ns, name), TupleSize(ns, name))
      value == Dbt(WriteString(val), StringSize(val))
  IN  /\ master' = {e \in master : e[1] # key} \cup {<<key, value>>}
      /\ index' = index \cup {<<IndexPackage(key), key>>}
      /\ wrote' = {<<TupleSize(ns, name), Len(Tuple(ns, name))>>,
                   <<StringSize(val), Len(WriteString(val))>>,
                   <<StringSize(SpaceOf(key)), Len(IndexPackage(key))>>}
      /\ defs' = [defs EXCEPT ![<<ns, name>>] = val]

Next == \E ns \in Spaces, name \in Names, val \in Values : Put(ns, name, val)

Spec == Init /\ [][Next]_vars

-----------------------------------------------------------------------------
\* get, list(ns) and list().
Stored(key) == {e[2] : e \in {e \in master : e[1] = key}}

\* Reading into a buffer of no bytes throws DbMemoryException, unless that is enough for
\* what is stored or nothing is.
TooSmall(key) == \E v \in Stored(key) : Len(v) > 0

Get(ns, name) ==
  LET key == Dbt(Tuple(ns, name), TupleSize(ns, name))
  IN  IF TooSmall(key) THEN ReadString(CHOOSE v \in Stored(key) : TRUE, 1).string ELSE Default

List(ns) ==
  LET skey == Dbt(WriteString(ns), StringSize(ns))
  IN  {<<NameOf(e[2]), ReadString(CHOOSE v \in Stored(e[2]) : TRUE, 1).string>> :
         e \in {e \in index : e[1] = skey}}

ListSpaces == {ReadString(e[1], 1).string : e \in index}

(***************************************************************************)
(* Type correctness; a database holds one value for a key.                 *)
(***************************************************************************)
TypeOK ==
  /\ \A e \in master : e[1] \in Seq(Byte) /\ e[2] \in Seq(Byte)
  /\ \A e, f \in master : e[1] = f[1] => e = f
  /\ \A e \in index : e[1] \in Seq(Byte) /\ e[2] \in {f[1] : f \in master}
  /\ defs \in [Spaces \X Names -> Values \cup {Default}]

(***************************************************************************)
(* No buffer is written past the size the first pass computed for it, and  *)
(* none is passed on with bytes that were not written.                     *)
(***************************************************************************)
BuffersFit == \A w \in wrote : w[1] = w[2]

(***************************************************************************)
(* get answers what was put last under exactly that namespace and name:    *)
(* no two variables share a key, wherever the one string ends and the      *)
(* other begins, and the lengths survive the sign bits of their bytes.     *)
(***************************************************************************)
GetAnswersLastPut == \A ns \in Spaces, name \in Names : Get(ns, name) = defs[<<ns, name>>]

(***************************************************************************)
(* The listings parse back what was put: each namespace lists its own      *)
(* variables with their values, and the namespaces are those that have any.*)
(***************************************************************************)
ListingsAgree ==
  /\ \A ns \in Spaces :
       List(ns) = {<<name, defs[<<ns, name>>]>> :
                     name \in {n \in Names : defs[<<ns, n>>] # Default}}
  /\ ListSpaces = {ns \in Spaces : \E name \in Names : defs[<<ns, name>>] # Default}
=============================================================================
