------------------------------ MODULE MCClaims ------------------------------
EXTENDS MCBenchmark, BenchmarkClaims

SomeData == {<<0, 1, 2, 3, 5>>, <<0, 1, 1, 3>>}
UniqueData == {<<0, 1, 2, 3, 5>>}
Lookups == {<<1, 3>>, <<4>>}

ErrorsOptions == CommandLines({1}, {1}, {0}, {{"errors"}})
NoWriteOptions == CommandLines({1}, {1}, {Absent}, {{}})
WritingOptions == CommandLines({1}, {1}, {1, 2}, {{}})
ColdOptions == CommandLines({1}, {1}, {0}, {{"cold"}})

JustBTree == {<<One("BTree", 1)>>}
JustArt == {<<One("ART", 1)>>}

TrackingErrors == CallsOf(SomeData, Lookups, ErrorsOptions, JustBTree)
WithoutPortion == CallsOf(SomeData, Lookups, NoWriteOptions, JustBTree)
WritingToArt == CallsOf(UniqueData, Lookups, WritingOptions, JustArt)
ColdCalls == CallsOf(SomeData, Lookups, ColdOptions, JustBTree)
=============================================================================
