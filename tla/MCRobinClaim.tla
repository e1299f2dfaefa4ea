---------------------------- MODULE MCRobinClaim ----------------------------
EXTENDS RobinMap

MCLoads == {DEFAULT_MAX_LOAD_FACTOR, <<19, 20>>}
MCMinLoads == {DEFAULT_MIN_LOAD_FACTOR}

(***************************************************************************)
(* robin_map_tests.cpp erases a range of a map and then counts each key it    *)
(* still iterates over once.  A value that ran around the end of the table    *)
(* and stays there while the values in front of it go is iterated over, but   *)
(* find stops in front of it.                                               *)
(***************************************************************************)
IteratedAreFound == \A b \in Places : find_impl(m_buckets, m_buckets[b].key).found
=============================================================================
