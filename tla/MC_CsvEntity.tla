------------------------------ MODULE MC_CsvEntity ------------------------------
(* Small instances of CsvEntity for TLC: files of the forms of the sample      *)
(* sheet of the repository.                                                    *)
EXTENDS CsvEntity

Line(text, kind, name, urls) ==
    [bytes |-> text, kind |-> kind, name |-> name, urls |-> urls]

Product(text, name, urls) == Line(text, "product", name, urls)

HeaderWords == <<"S. No.", "Product Name", "Input Image Urls">>
Urls == {<<"u">>, <<"v">>, <<"u", "\"">>}

HeaderLine == Line(<<HeaderWords[1], ",", HeaderWords[2], ",", HeaderWords[3]>>,
                   "header", <<>>, <<>>)

(* With two quoted urls, with one of them again, with a quoted name, with      *)
(* quotes in the name, with one at the end of a url.                           *)
SheetProducts ==
    {Product(<<"1", ",", "a", ",", "\"", "v", ",", " ", "u", "\"">>, <<"a">>, <<<<"v">>, <<"u">>>>),
     Product(<<"1", ",", "a", ",", "u">>, <<"a">>, <<<<"u">>>>),
     Product(<<"1", ",", "\"", "a", ",", "b", "\"", ",", "v">>, <<"a", ",", "b">>, <<<<"v">>>>),
     Product(<<"1", ",", "a", "\"", "b", "\"", "\"", ",", "u">>, <<"a", "\"", "b", "\"">>, <<<<"u">>>>),
     Product(<<"1", ",", "c", ",", "u", "\"", "\"">>, <<"c">>, <<<<"u", "\"">>>>)}

(* Nothing, a missing column, a quote left open, a bad url.                  *)
OtherLines ==
    {Line(<<>>, "empty", <<>>, <<>>),
     Line(<<"1", ",", "a">>, "faulty", <<>>, <<>>),
     Line(<<"1", ",", "a", ",", "\"", "u">>, "faulty", <<>>, <<>>),
     Line(<<"1", ",", "a", ",", "b">>, "faulty", <<>>, <<>>)}

SheetLines == {HeaderLine} \cup SheetProducts \cup OtherLines

(* A name with a character of two bytes.                                       *)
WideLines == {HeaderLine, Product(<<"1", ",", "lead", "trail", ",", "u">>, <<"wide">>, <<<<"u">>>>)}

BothTerminators == {<<"\n">>, <<"\r", "\n">>}
=================================================================================
