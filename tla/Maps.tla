-------------------------------- MODULE Maps --------------------------------
(***************************************************************************)
(* Partial maps: a function whose DOMAIN is the set of keys present.  They *)
(* stand for the std::map members of the program (the lookup table of the  *)
(* metadata cache, the table of local file copies) and for the object      *)
(* store of the device.                                                    *)
(***************************************************************************)

EmptyMap == [x \in {} |-> x]

(* f maps some of the keys of S to values of T.                            *)
IsMap(f, S, T) == /\ DOMAIN f \subseteq S
                  /\ f \in [DOMAIN f -> T]

(* m[k] = v, and m.erase(k) for every key k of K.                          *)
Put(f, k, v) == [x \in DOMAIN f \cup {k} |-> IF x = k THEN v ELSE f[x]]
Drop(f, K)   == [x \in DOMAIN f \ K |-> f[x]]
=============================================================================
