--------------------------- MODULE MCCoapRequest ---------------------------
(***************************************************************************)
(* Small instances of CoapRequest for TLC.                                 *)
(***************************************************************************)
EXTENDS CoapRequest

Many(n, byte) == [i \in 1..n |-> byte]

\* "t" takes an extension of its length, "l" is the longest segment.
MCUtf8 ==
    "" :> <<>> @@ "coap" :> <<1>> @@ "coaps" :> <<6>> @@ "ip" :> <<2>> @@ "ip2" :> <<3>> @@ "group" :> <<4>> @@
    "name" :> <<5>> @@ "a" :> <<97>> @@ "b" :> <<98>> @@ "core" :> <<99>> @@
    "." :> <<46>> @@ ".." :> <<46, 46>> @@ "n" :> <<195, 169>> @@
    "t" :> Many(13, 116) @@ "l" :> Many(255, 108)

Url(scheme, host, port, path, query) ==
    [valid |-> TRUE, scheme |-> scheme, host |-> host, port |-> port, path |-> path,
     query |-> query, fragment |-> FALSE]

MCUrls == {
    Url("coap", "ip", NoPort, <<"", "a", "b">>, <<"b", "", "a">>),
    Url("coap", "name", 99, <<"", "a", "..", "t", ".", "", "l">>, <<>>),
    Url("coaps", "ip", NoPort, <<"", "b", "a">>, <<>>),
    Url("", "", NoPort, <<"ip", "b">>, <<>>),
    Url("", "ip", 7, <<>>, <<"a">>),
    Url("http", "ip", NoPort, <<"", "a">>, <<>>),
    Url("coap", "group", NoPort, <<"", "a">>, <<>>),
    Url("coap", "ip", NoPort, <<"", "n">>, <<>>),
    [Url("coap", "ip", NoPort, <<"", "a">>, <<>>) EXCEPT !.fragment = TRUE],
    NoUrl }

MCProxies == {Url("coap", "ip2", 5683, <<>>, <<>>), Url("http", "ip2", NoPort, <<>>, <<>>)}

MCUserOptions == {Option("Etag", <<7>>), Option("Size1", Many(13, 1))}
MCAnswerOptions == {<<Option("Etag", <<7>>), Option("LocationPath", Many(14, 1)),
                      Option("LocationPath", Many(12, 2)), Option("Size1", <<>>)>>}
\* The second list is out of order.
MCOptionLists == {<<Option("Etag", <<7>>), Option("Etag", <<8>>), Option("Size1", UintBytes(70000))>>,
                  <<Option("Size1", <<1>>), Option("Etag", <<7>>)>>}

MCLinks ==
    <<>> :> <<>> @@
    <<60>> :> << <<[name |-> "path", value |-> "/a"], [name |-> "title", value |-> "A"],
                   [name |-> "sz", value |-> 9]>>,
                 <<[name |-> "path", value |-> "/b"], [name |-> "obs", value |-> ""],
                   [name |-> "anchor", value |-> "x"]>> >>

MCDiscoveryPath == <<"", "core">>
MCPayloads == DOMAIN MCLinks
MCTokens == {<<1, 2, 3, 4>>}
MCUserTokens == {Many(8, 9)}
=============================================================================
