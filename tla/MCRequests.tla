------------------------------ MODULE MCRequests ------------------------------
(* Small clients for ServerConnection: the requests they send. *)
EXTENDS Integers, Sequences

\* The Content-Length line that announces a body of n
Length(n) == <<"len0", "len1", "len2", "len3">>[n + 1]

Get == [method |-> "GET", headers |-> <<"other">>, body |-> 0]
GetClose == [method |-> "GET", headers |-> <<"close">>, body |-> 0]
Post(n) == [method |-> "POST", headers |-> <<"other", Length(n)>>, body |-> n]
PostChunked(n) == [method |-> "POST", headers |-> <<"chunked">>, body |-> n]
PostBare == [method |-> "POST", headers |-> <<"other">>, body |-> 0]
PostExpect(e) == [method |-> "POST", headers |-> <<Length(1), e>>, body |-> 1]

\* Keep-alive clients that keep to one framing of their bodies; a body of 3 is
\* above the limit.
Plain == {<<a, b, Get>> : a \in {Get, Post(0), Post(2), Post(3), PostBare},
                          b \in {Post(2), GetClose}}
Chunked == {<<a, b, Get>> : a \in {Get, PostChunked(0), PostChunked(2), PostChunked(3)},
                            b \in {PostChunked(1)}}
\* Clients that expect 100 Continue, or something else.
Expecting == {<<PostExpect(e), Get>> : e \in {"expect", "expects"}}
KeepAlive == Plain \cup Chunked \cup Expecting
Gets == {<<Get, Get, Get>>}
Mixed == {<<PostChunked(1), Post(2)>>}
================================================================================
