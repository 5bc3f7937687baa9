--------------------------- MODULE IndexedArray ---------------------------
(***************************************************************************)
(* array_t<T, ID> of src/src/array.hpp: a vector of item handles in which  *)
(* every item caches its own position (array_item_t::array_index).  An    *)
(* array is a record [items |-> Seq(Item), idx |-> [Item -> Int]]; idx is  *)
(* the per-item cache, -1 before the first push_back.  Positions are      *)
(* 0-based as in the code, so position i is items[i + 1].                 *)
(***************************************************************************)
EXTENDS Integers, Sequences

\* array_t::operator[]
At(a, i) == a.items[i + 1]

\* array_t::size
Size(a) == Len(a.items)

\* array_t::index: reads the position cached in the item itself
Index(a, x) == a.idx[x]

\* array_t::push_back: the item records the old size as its index
PushBack(a, x) ==
    [items |-> Append(a.items, x),
     idx   |-> [a.idx EXCEPT ![x] = Len(a.items)]]

\* mutant of Swap: the second item's cached index is not rewritten
SwapKeepIdx(a, i, j) ==
    [items |-> [a.items EXCEPT ![i + 1] = a.items[j + 1],
                               ![j + 1] = a.items[i + 1]],
     idx   |-> [a.idx EXCEPT ![a.items[i + 1]] = j]]

\* array_t::swap: both cached indices are rewritten, then the slots
Swap(a, i, j) ==
    [items |-> [a.items EXCEPT ![i + 1] = a.items[j + 1],
                               ![j + 1] = a.items[i + 1]],
     idx   |-> [a.idx EXCEPT ![a.items[i + 1]] = j,
                             ![a.items[j + 1]] = i]]

\* array_t::erase(size_type): the tail item moves into slot i and the
\* vector pops; the erased item keeps its (now stale) cached index
EraseAt(a, i) ==
    LET tail == a.items[Len(a.items)]
    IN  [items |-> SubSeq([a.items EXCEPT ![i + 1] = tail], 1, Len(a.items) - 1),
         idx   |-> [a.idx EXCEPT ![tail] = i]]

\* array_t::erase(T *): erase at the item's cached index
Erase(a, x) == EraseAt(a, Index(a, x))

\* Every item in the array finds itself at its cached index.
Consistent(a) == \A i \in 0 .. Size(a) - 1 : Index(a, At(a, i)) = i
=============================================================================
