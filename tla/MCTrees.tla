------------------------------ MODULE MCTrees ------------------------------
(***************************************************************************)
(* Small instances of the two drivers of a tree, each by itself.           *)
(***************************************************************************)
EXTENDS NSTreeImplements, TLC

CONSTANTS Slash, MaxLength

VARIABLES
  part,  \* the driver: "ns" or "mp"
  mpNodes, mpParent, mpLevel, mpIdentifier, path

IdSymmetry == Permutations(Ids)

MP == INSTANCE MPTree
        WITH nodes <- mpNodes, parent_id <- mpParent, level <- mpLevel,
             identifier <- mpIdentifier
mpVars == <<mpNodes, mpParent, mpLevel, mpIdentifier, path>>

MCInit == part \in {"ns", "mp"} /\ Init /\ MP!Init
MCNext ==
  /\ UNCHANGED part
  /\ \/ part = "ns" /\ Next /\ UNCHANGED mpVars
     \/ part = "mp" /\ MP!Next /\ UNCHANGED vars
MCSpec == MCInit /\ [][MCNext]_<<vars, mpVars, part>>

\* Nested sets: the queries by bounds and by path find what the columns say.
AnswersAgree == QueriesAgree /\ PathFindsNode

\* Materialized path: path, level and parent_id of every row say the same, and so do
\* the queries by path; the driver does what lmbTree promises.
MPAgrees == MP!MPAgrees
MPImplementsTree == MP!MPImplementsTree
=============================================================================
