----------------------------- MODULE CoapOption -----------------------------
(***************************************************************************)
(* The options of a message: QCoapOption, and the list of options of a     *)
(* QCoapMessage, to which addOption adds in the order of the option        *)
(* numbers, options of one number in the order in which they come.  A      *)
(* value is a sequence of bytes; a value that is too long for its option   *)
(* is warned about only.                                                   *)
(***************************************************************************)
EXTENDS Naturals, Sequences, SequencesExt

Byte == 0..255
UInt16 == 0..(256 * 256 - 1)

OptionNumber == [IfMatch |-> 1, UriHost |-> 3, Etag |-> 4, IfNoneMatch |-> 5, Observe |-> 6,
                 UriPort |-> 7, LocationPath |-> 8, UriPath |-> 11, ContentFormat |-> 12,
                 MaxAge |-> 14, UriQuery |-> 15, Accept |-> 17, LocationQuery |-> 20,
                 Block2 |-> 23, Block1 |-> 27, Size2 |-> 28, ProxyUri |-> 35,
                 ProxyScheme |-> 39, Size1 |-> 60]

CoapOptions == [name : Nat, value : Seq(Byte)]

Option(name, value) == [name |-> OptionNumber[name], value |-> value]

\* setValue(quint32): the low byte first, no byte at all for 0.
UintBytes(n) ==
    LET Bytes[rest \in Nat] == IF rest = 0 THEN <<>> ELSE <<rest % 256>> \o Bytes[rest \div 256]
    IN Bytes[n]

UintValue(option) == FoldLeftDomain(LAMBDA n, i : n + option.value[i] * 256^(i - 1), 0, option.value)

Sorted(options) == \A i, j \in DOMAIN options : i < j => options[i].name <= options[j].name

\* Fault: std::lower_bound in place of std::upper_bound.
LowerInsertionPlace(options, option) ==
    CHOOSE i \in 1..(Len(options) + 1) :
        /\ i > 1 => options[i - 1].name < option.name
        /\ i <= Len(options) => options[i].name >= option.name

\* Fault: new options go to the end.
LastInsertionPlace(options, option) == Len(options) + 1

\* std::upper_bound: the place between an option with no greater number, or the start, and one
\* with a greater number, or the end.  A sorted list has one such place; in another list, which
\* setOptions may leave, the search ends at one of them, and no property asks at which.
InsertionPlace(options, option) ==
    CHOOSE i \in 1..(Len(options) + 1) :
        /\ i > 1 => options[i - 1].name <= option.name
        /\ i <= Len(options) => options[i].name > option.name

AddOption(options, option) == InsertAt(options, InsertionPlace(options, option), option)

HasOption(options, name) == \E i \in DOMAIN options : options[i].name = OptionNumber[name]

OptionsNamed(options, name) ==
    FoldLeft(LAMBDA named, o : IF o.name = OptionNumber[name] THEN Append(named, o) ELSE named,
             <<>>, options)

\* removeOption: the first option that is equal, or all options of one name.
RemoveOption(options, option) == RemoveFirst(options, option)
RemoveOptionsNamed(options, name) ==
    FoldLeft(LAMBDA kept, o : IF o.name = OptionNumber[name] THEN kept ELSE Append(kept, o),
             <<>>, options)
=============================================================================
