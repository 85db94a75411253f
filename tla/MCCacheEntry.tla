------------------------------ MODULE MCCacheEntry ------------------------------
(* CacheEntry on small instances, for TLC.  Blocks have two bytes, so strings *)
(* of no to three bytes have every number of blocks and of remaining bytes.  *)
EXTENDS CacheEntry, TLC

CONSTANTS c1, c2, x, z

AllBytes == {x, z, One}

OneConsumer  == {c1}
TwoConsumers == {c1, c2}

Field(k, v) == [key |-> k, value |-> v]

Maps == {<<>>,
         <<Field(<<x>>, <<>>)>>,
         <<Field(<<x, x>>, <<One, One>>)>>,
         <<Field(<<x>>, <<x>>), Field(<<x, x, x>>, <<One, One, x>>)>>}

Bodies == {<<>>, <<<<>>>>, <<<<x>>, <<>>>>, <<<<One, One>>>>, <<<<z, z>>, <<One, One, x>>>>}

Response(h, d, t) == [headers |-> h, data |-> d, trailers |-> t]

\* Every combination but trailers that follow the headers without data.
DataBeforeTrailers ==
    {Response(h, d, t) : h \in Maps \ {<<>>}, d \in Bodies, t \in {Nil}}
    \union {Response(h, d, t) : h \in Maps \ {<<>>}, d \in Bodies \ {<<>>}, t \in Maps}

\* Trailers that follow the headers without data.
TrailersOnly == {Response(h, <<>>, t) : h \in Maps \ {<<>>}, t \in Maps}

\* Headers that end the stream.
HeadersOnly == {Response(h, <<>>, Nil) : h \in Maps \ {<<>>}}

SomeCapacities == {1, 2, 3}
=================================================================================
