--------------------------- MODULE CoreLinkFormat ---------------------------
(***************************************************************************)
(* The resources in a core link document: QCoapResource, and               *)
(* QCoapResourceDiscoveryReplyPrivate::resourcesFromCoreLinkList.          *)
(*                                                                         *)
(* A document is a sequence of tokens: the separators "," and ";", and     *)
(* parameters, which are records of an attribute and its value, without    *)
(* quotes and as a number where the code makes it one.                     *)
(***************************************************************************)
EXTENDS Integers, Sequences, SequencesExt

\* The setters of QCoapResource by the name of the parameter.
Attribute == [path |-> "path", title |-> "title", rt |-> "resourceType", if |-> "interface",
              sz |-> "maximumSize", ct |-> "contentFormat", obs |-> "observable"]

\* A default QCoapResource of a host.
NewResource(host) == [host |-> host, path |-> "", title |-> "", resourceType |-> "",
                      interface |-> "", maximumSize |-> -1, contentFormat |-> 0,
                      observable |-> FALSE]

Separator(mark) == [name |-> mark, value |-> ""]

\* QByteArray::split: n separators make n + 1 parts.
Split(tokens, mark) ==
    FoldLeft(LAMBDA parts, t : IF t = Separator(mark) THEN Append(parts, <<>>)
                               ELSE [parts EXCEPT ![Len(parts)] = Append(@, t)],
             << <<>> >>, tokens)

\* One parameter; one that is not known changes nothing, "obs" has no value.
WithParameter(resource, t) ==
    IF t.name \notin DOMAIN Attribute THEN resource
    ELSE [resource EXCEPT ![Attribute[t.name]] = IF t.name = "obs" THEN TRUE ELSE t.value]

\* Fault: the resource is declared outside the loop, so that a link starts from the one before.
FaultyResourcesFromCoreLinkList(sender, data) ==
    LET Step(acc, link) == LET r == FoldLeft(LAMBDA q, p : IF p = <<>> THEN q ELSE WithParameter(q, p[1]),
                                             acc.last, Split(link, ";"))
                           IN [last |-> r, list |-> IF r.path = "" THEN acc.list ELSE Append(acc.list, r)]
    IN FoldLeft(Step, [last |-> NewResource(sender), list |-> <<>>], Split(data, ",")).list

\* The parameters of one link, one after the other.
ResourceOf(sender, link) ==
    FoldLeft(LAMBDA r, p : IF p = <<>> THEN r ELSE WithParameter(r, p[1]), NewResource(sender), Split(link, ";"))

\* A link without a path is dropped.
ResourcesFromCoreLinkList(sender, data) ==
    FoldLeft(LAMBDA list, link : IF ResourceOf(sender, link).path = "" THEN list
                                 ELSE Append(list, ResourceOf(sender, link)),
             <<>>, Split(data, ","))

(***************************************************************************)
(* The other end: the document of a list of links.                         *)
(***************************************************************************)

\* Each link is a sequence of parameters.
LinkTokens(link) ==
    FlattenSeq([i \in DOMAIN link |-> IF i = 1 THEN <<link[i]>> ELSE <<Separator(";"), link[i]>>])
Document(links) ==
    FlattenSeq([i \in DOMAIN links |-> IF i = 1 THEN LinkTokens(links[i])
                                       ELSE <<Separator(",")>> \o LinkTokens(links[i])])

\* What a link says of a resource of a host: an attribute it does not have keeps its default.
Described(host, link) ==
    [a \in DOMAIN NewResource(host) |->
        LET given == {t \in {link[i] : i \in DOMAIN link} : t.name \in DOMAIN Attribute /\ Attribute[t.name] = a}
        IN IF given = {} THEN NewResource(host)[a]
           ELSE IF a = "observable" THEN TRUE ELSE (CHOOSE t \in given : TRUE).value]
=============================================================================
