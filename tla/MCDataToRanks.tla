--------------------------- MODULE MCDataToRanks ---------------------------
(* Two names, three dates, two symbols of which one has two spellings, and *)
(* three dataset versions, of which the first is called "v1".              *)
EXTENDS DataToRanks, TLC

CONSTANTS X, Y, x

MCIsin == 1..2
MCSession == 1..3
MCSpelling == {X, Y, x}
MCCanonical == (X :> X) @@ (Y :> Y) @@ (x :> X)
MCWindows == {1, 2}
MCVersion == 1..3

Row(i, d, s) == [isin |-> i, symbol |-> s, session |-> d, high |-> 3, low |-> 1, close |-> 2,
                 volume |-> 1, value |-> 1, line |-> 1]

\* Every file of good rows: who trades when, and under which symbol.
GoodFiles ==
    {{Row(k[1], k[2], f[k]) : k \in {j \in MCIsin \X MCSession : f[j] # Null}} :
        f \in [MCIsin \X MCSession -> {X, Y, Null}]}

\* What can be wrong with one row.
Blemished(r) ==
    {[r EXCEPT !.isin = Null], [r EXCEPT !.symbol = Null], [r EXCEPT !.symbol = x],
     [r EXCEPT !.session = Bad], [r EXCEPT !.close = Bad], [r EXCEPT !.close = 0, !.low = 0],
     [r EXCEPT !.high = 0], [r EXCEPT !.high = 1, !.low = 1], [r EXCEPT !.high = Null],
     [r EXCEPT !.volume = -1], [r EXCEPT !.volume = 0], [r EXCEPT !.value = Null]}

\* All names on all dates; the second name listed late; and then under the symbol
\* that the first one has given up.
FullFile == {Row(i, d, IF i = 1 THEN X ELSE Y) : i \in MCIsin, d \in MCSession}
LateFile == {r \in FullFile : r.isin = 1 \/ r.session > 1}
HandedOverFile == {[r EXCEPT !.symbol = IF r.isin = 2 \/ r.session = 1 THEN X ELSE Y] : r \in LateFile}
BaseFiles == {FullFile, LateFile, HandedOverFile}

BlemishedFiles ==
    UNION {UNION {{(file \ {r}) \cup {b} : b \in Blemished(r)} \cup {file \cup {[r EXCEPT !.line = 2]}} :
                    r \in file} : file \in BaseFiles}

Day(d, o) == [session |-> d, isOpen |-> o, line |-> 1]
Calendars(cells) == {{Day(d, f[d]) : d \in MCSession} : f \in [MCSession -> cells]}
AllOpen == {Day(d, "true") : d \in MCSession}
OddCalendars == Calendars({"true", "false", Null, "yes"})
                \cup {AllOpen \cup {[Day(d, "true") EXCEPT !.line = 2]} : d \in MCSession}
                \cup {AllOpen \cup {Day(Bad, "true")}}

Action(i, d, t, f, n, m, l) == [isin |-> i, exDate |-> d, type |-> t, factor |-> f, num |-> n,
                                den |-> m, line |-> l]
ActionFiles ==
    {{Action(i, d, t, f, n, m, 1)} : i \in {1, Null}, d \in {2, Bad}, t \in {"split", "dividend", Null},
        f \in {Bad, -1, 0, 2}, n \in {Null, -1, 0, 1}, m \in {Null, -1, 0, 2}}
    \cup {{Action(1, 2, "split", 2, Null, Null, 1), Action(1, 2, t, Null, 1, 2, 2)} :
             t \in {"split", "dividend"}}

Head(b, s) == [bullish |-> b, bearish |-> s]
PlainModel == [heads |-> [i \in MCIsin |-> Head(1, 1)], level |-> [i \in MCIsin |-> [vol |-> 1, liq |-> 1]]]
Models == [heads : [MCIsin -> [bullish : 0..Unit, bearish : 0..Unit]],
           level : {[i \in MCIsin |-> [vol |-> 3 - i, liq |-> i]]}]

\* The version is the one after "v1", unless a file is corrected.
Input(e, c, a, asOf, m) ==
    [equity |-> e, calendar |-> c, actions |-> a, asOf |-> asOf, version |-> 2, model |-> m]

\* One of the files is taken through its variety, the others are plain.
MCInputs ==
    {Input(e, c, {}, d, PlainModel) :
        e \in GoodFiles, c \in Calendars({"true", "false"}), d \in {None, 2}}
    \cup {Input(e, AllOpen, {}, None, PlainModel) : e \in BlemishedFiles}
    \cup {Input(FullFile, c, {}, None, PlainModel) : c \in OddCalendars}
    \cup {Input(FullFile, AllOpen, a, None, PlainModel) : a \in ActionFiles}
    \cup {Input(FullFile, AllOpen, {}, None, m) : m \in Models}

\* Corrected files: the three above, and the third with one row less or under the
\* other symbol.
MCCorrections ==
    BaseFiles \cup
    UNION {{HandedOverFile \ {r},
            (HandedOverFile \ {r}) \cup {[r EXCEPT !.symbol = IF r.symbol = X THEN Y ELSE X]}} :
             r \in HandedOverFile}

=============================================================================
