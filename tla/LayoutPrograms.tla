----------------------------- MODULE LayoutPrograms -----------------------------
(***************************************************************************)
(* Small programs for Layout: token sequences whose lines may be broken in *)
(* a few places, each new line indented by one of a few columns or to the  *)
(* column of the first token of an earlier block.                          *)
(***************************************************************************)
EXTENDS Integers, Sequences

\* Of a token and the space after it.
Width(t) == CASE t = "where" -> 6
              [] t \in {"case", "then", "else"} -> 5
              [] t = "let" -> 4
              [] t \in {"do", "of", "in", "if", "->", "<-"} -> 3
              [] OTHER -> 2

Columns == {0, 2, 4}
Opens == {"do", "of", "let", "where"}

Token(t, col, first) == [t |-> t, col |-> col, first |-> first]

\* The columns a new line may have after the tokens s.
Indents(s) == Columns \cup {s[k].col : k \in {j \in 2 .. Len(s) : s[j - 1].t \in Opens}}

\* Ways to go on after s with a token t.
Continuations(s, t, may_break) ==
    {Append(s, Token(t, s[Len(s)].col + Width(s[Len(s)].t), FALSE))}
    \cup IF may_break THEN {Append(s, Token(t, col, TRUE)) : col \in Indents(s)} ELSE {}

(* The layouts of a text whose lines may be broken before the positions    *)
(* of breaks.                                                              *)
Layouts(text, breaks) ==
    LET upto[i \in DOMAIN text] ==
            IF i = 1 THEN {<<Token(text[1], 0, TRUE)>>}
            ELSE UNION {Continuations(s, text[i], i \in breaks) : s \in upto[i - 1]}
    IN upto[Len(text)]

X == <<"name">>
F == <<"name", "=">>
FX == F \o X
XX == X \o X
Plus == <<"op">> \o X
Arrow == X \o <<"->">> \o X
Bar(sep) == <<"|">> \o X \o <<sep>> \o X

Statements ==
    UNION {Layouts(F \o <<"do">> \o XX \o X, 4 .. 6),
           Layouts(F \o <<"do", "do">> \o XX \o X, {4, 5, 6, 7}),
           Layouts(F \o X \o <<"op", "do">> \o X \o Plus, {6, 7, 8}),
           Layouts(F \o <<"do">> \o X \o <<"op", "do">> \o X \o Plus, {4, 7, 8}),
           Layouts(F \o <<"do">> \o X \o <<"<-">> \o XX \o X, {5, 6, 7, 8}),
           Layouts(F \o <<"do", "let">> \o FX \o FX \o X, {5, 8, 11}),
           Layouts(F \o <<"do", "let">> \o FX \o <<"in">> \o XX, {4, 8, 10}),
           Layouts(F \o <<"do", "if">> \o X \o <<"then">> \o X \o <<"else">> \o XX, {6, 8, 9, 10}),
           Layouts(F \o <<"do">> \o X \o <<"op", "\\">> \o X \o <<"->", "do">> \o XX \o Plus,
                   {4, 10, 11, 12}),
           Layouts(F \o <<"do", "case">> \o X \o <<"of">> \o Arrow \o X \o Plus, {6, 7, 10, 11}),
           Layouts(F \o <<"do", "(", "do">> \o XX \o <<")">> \o Plus, {6, 7, 8, 9})}

Lets ==
    UNION {Layouts(F \o <<"let">> \o FX \o FX \o <<"in">> \o X, {4, 7, 10, 11}),
           Layouts(F \o <<"let", "(", "name", ",", "name", ")", "=">> \o X \o FX \o <<"in">> \o X,
                   {4, 11, 12, 14}),
           Layouts(F \o X \o <<"op", "let">> \o FX \o Plus \o <<"in">> \o X \o Plus, {9, 11, 13}),
           Layouts(F \o <<"let", "name">> \o Bar("=") \o Bar("=") \o <<"in">> \o X, {5, 9, 13}),
           Layouts(F \o <<"let">> \o F \o <<"do">> \o XX \o <<"in">> \o XX, {7, 8, 9, 11})}

Cases ==
    UNION {Layouts(F \o <<"case">> \o X \o <<"of">> \o Arrow \o Arrow, {6, 7, 8, 9}),
           Layouts(F \o <<"case">> \o X \o <<"of", "name">> \o Bar("->") \o Bar("->") \o Arrow, {7, 11, 15}),
           Layouts(<<"name">> \o <<"|">> \o X \o <<"=", "case">> \o X \o <<"of", "name">> \o Bar("->") \o Bar("=")
                   \o <<"where">> \o FX, {8, 9, 13, 17}),
           Layouts(F \o <<"case">> \o X \o <<"of", "name", "->", "case">> \o X \o <<"of">> \o Arrow \o Arrow,
                   {6, 8, 11, 14}),
           Layouts(F \o <<"case">> \o X \o <<"of">> \o X \o <<"->", "do">> \o XX \o <<"-", "lit">> \o Plus,
                   {6, 9, 10, 12}),
           Layouts(F \o <<"case">> \o X \o <<"of">> \o X \o <<"->", "do">> \o X \o Arrow \o Plus, {6, 9, 10, 13}),
           Layouts(F \o <<"case", "do">> \o X \o <<"of">> \o Arrow \o Arrow, {5, 6, 7, 10}),
           Layouts(F \o <<"case">> \o X \o <<"of">> \o Arrow \o <<"-", "lit", "->">> \o X, {6, 8, 9, 11}),
           Layouts(F \o <<"(", "case">> \o X \o <<"of">> \o Arrow \o <<")">> \o Plus, {7, 10, 11}),
           Layouts(F \o <<"case">> \o X \o <<"of">> \o Arrow \o <<"where">> \o FX \o Arrow, {6, 9, 10, 13})}

Wheres ==
    UNION {Layouts(FX \o <<"where">> \o FX \o FX, {4, 5, 7, 8}),
           Layouts(FX \o <<"where">> \o FX \o <<"where">> \o FX \o FX, {5, 8, 9, 12}),
           Layouts(FX \o <<"where", "name">> \o Bar("=") \o Bar("=") \o FX, {6, 10, 14}),
           Layouts(FX \o <<"where", "(", "name", ",", "name", ")", "=">> \o X \o FX, {4, 11, 12}),
           Layouts(F \o <<"do">> \o X \o <<"where">> \o F \o <<"do">> \o XX, {5, 6, 9, 10}),
           Layouts(<<"name", "|">> \o X \o <<",", "name", "<-">> \o X \o <<"=">> \o X \o Bar("=") \o <<"where">> \o FX,
                   {2, 4, 10, 14}),
           Layouts(<<"name", "|", "let">> \o FX \o <<",">> \o X \o <<"=">> \o X \o <<"where">> \o FX,
                   {4, 7, 9, 11})}

Nested ==
    UNION {Layouts(F \o <<"case">> \o X \o <<"of">> \o X \o <<"->", "do">> \o XX \o <<"where">> \o FX,
                   {9, 10, 11, 12}),
           Layouts(F \o <<"do">> \o X \o <<"<-", "case">> \o X \o <<"of">> \o Arrow \o X \o X, {9, 12, 13}),
           Layouts(F \o <<"do", "let">> \o F \o <<"case">> \o X \o <<"of">> \o Arrow \o FX \o X,
                   {10, 13, 16}),
           Layouts(F \o <<"do", "let", "name">> \o Bar("=") \o Bar("=") \o X, {6, 10, 14}),
           Layouts(F \o <<"if">> \o X \o <<"then", "do">> \o XX \o <<"else", "do">> \o XX, {7, 8, 9, 12}),
           Layouts(F \o X \o <<"op", "case">> \o X \o <<"of">> \o X \o <<"->", "do">> \o X \o Arrow \o Plus,
                   {11, 12, 15}),
           Layouts(F \o X \o <<"where">> \o F \o <<"do", "let">> \o FX \o X \o <<"where">> \o FX,
                   {5, 8, 12, 13})}

Others ==
    UNION {Layouts(FX \o Plus \o XX, {3, 4, 5, 6}),
           Layouts(FX \o <<"-", "lit">> \o Plus, {4, 5, 6}),
           Layouts(F \o <<"if">> \o X \o <<"then">> \o X \o <<"else">> \o X \o Plus, {5, 7, 9}),
           Layouts(F \o <<"(">> \o X \o <<",", "do">> \o XX \o <<")">> \o X, {6, 7, 8, 9}),
           Layouts(<<"name", "(", "name", ",", "name", ")", "=">> \o X \o FX, {7, 8, 9}),
           Layouts(F \o <<"\\">> \o X \o <<"->", "case">> \o X \o <<"of">> \o Arrow \o Plus, {5, 6, 9, 12}),
           Layouts(F \o <<"do">> \o X \o FX \o X, {4, 5, 8})}

(* All of them.                                                            *)
Texts == Statements \cup Lets \cup Cases \cup Wheres \cup Others \cup Nested
===============================================================================
