-------------------------- MODULE MCProjectionScan --------------------------
(***************************************************************************)
(* Keys over the bytes 0 and 1, 1 being the largest byte: a key that is a   *)
(* prefix of another, prefixes that end in the largest byte and one that    *)
(* consists of it.                                                          *)
(***************************************************************************)
EXTENDS ProjectionScan

CONSTANTS v1, v2

Put(k, v) == [kind |-> "Put", key |-> k, value |-> v]
Delete(k) == [kind |-> "Delete", key |-> k]
Clear == [kind |-> "Clear"]
Entry(k, v) == [key |-> k, value |-> v]
Replace(entries) == [kind |-> "Replace", entries |-> entries]

MCPrefixes == {<<>>, <<0>>, <<1>>, <<0, 1>>, <<1, 1>>}

MCMutations ==
    {Put(<<0>>, v1), Put(<<0, 1>>, v1), Put(<<0, 1>>, v2), Put(<<1>>, v1),
     Put(<<1, 1>>, v2), Delete(<<0, 1>>), Delete(<<1>>), Clear,
     Replace(<<Entry(<<0, 1>>, v1), Entry(<<1, 0>>, v2)>>),
     Replace(<<Entry(<<0>>, v1), Entry(<<0>>, v2)>>)}

MCPatches ==
    {<<m>> : m \in MCMutations} \cup (MCMutations \X MCMutations)
    \cup {<<Put(<<0, 1>>, v1), Clear, Put(<<0, 1>>, v2)>>,
          <<Put(<<1>>, v1), Clear, Delete(<<1>>)>>,
          <<Delete(<<0, 1>>), Replace(<<Entry(<<0, 1>>, v2)>>), Put(<<1>>, v1)>>,
          <<Put(<<0>>, v1), Put(<<1>>, v1), Put(<<0>>, v2)>>}
=============================================================================
