-------------------------- MODULE MCResearchCommands --------------------------
(* Instances of ResearchCommands for TLC.                                 *)
EXTENDS ResearchCommands, FormulaParser

MCNames == <<"EURGBP", "EURJPY", "EURUSD", "GBPJPY", "GBPUSD", "GOLD_SILVER_RATIO", "USDJPY",
             "XAGUSD", "XAUEUR", "XAUUSD">>

Definition(name, target, formula) == [name |-> name, target |-> target, formula |-> formula]

INITIAL_RELATIONSHIPS ==
    <<Definition("EURGBP_SYNTHETIC", "EURGBP", <<"EURUSD", "/", "GBPUSD">>),
      Definition("EURJPY_SYNTHETIC", "EURJPY", <<"EURUSD", "*", "USDJPY">>),
      Definition("GBPJPY_SYNTHETIC", "GBPJPY", <<"GBPUSD", "*", "USDJPY">>),
      Definition("XAUEUR_SYNTHETIC", "XAUEUR", <<"XAUUSD", "/", "EURUSD">>),
      Definition("GOLD_SILVER_RATIO", "GOLD_SILVER_RATIO", <<"XAUUSD", "/", "XAGUSD">>)>>

\* One target, hypotheses that repeat each other and hypotheses that do not.
Repeating ==
    LET Of(name, formula) == Definition(name, "EURGBP", formula) IN
    <<Of("ratio", <<"EURUSD", "/", "GBPUSD">>),
      Of("other_name", <<"EURUSD", "/", "GBPUSD">>),
      Of("ratio", <<"EURUSD", "/", "GBPUSD">>),
      Of("grouped", <<"EURUSD", "*", "GBPUSD", "/", "(", "GBPUSD", "*", "GBPUSD", ")">>),
      Of("product", <<"EURUSD", "*", "GBPUSD">>),
      Of("turned", <<"GBPUSD", "*", "EURUSD">>),
      Of("sum", <<"EURUSD", "+", "GBPUSD", "+", "EURUSD", "*", "GBPUSD">>),
      Of("sum_turned", <<"GBPUSD", "*", "EURUSD", "+", "(", "EURUSD", "+", "GBPUSD", ")">>),
      Of("difference", <<"EURUSD", "-", "GBPUSD">>),
      Of("by_zero", <<"GBPUSD", "/", "(", "EURUSD", "-", "GBPUSD", "-", "GBPUSD", ")">>)>>

\* Each target is a source of another relationship, and round again.
Layered ==
    <<Definition("euryen", "EURJPY", <<"EURUSD", "*", "USDJPY">>),
      Definition("silver", "XAGUSD", <<"XAUUSD", "/", "GOLD_SILVER_RATIO">>),
      Definition("cross", "EURGBP", <<"EURJPY", "/", "GBPJPY">>),
      Definition("poundyen", "GBPJPY", <<"EURJPY", "*", "GBPUSD">>),
      Definition("euro", "EURUSD", <<"EURGBP", "*", "GBPUSD">>)>>

Unclosed == <<Definition("unclosed", "EURGBP", <<"EURUSD", "/", "(", "GBPUSD">>)>>

Request(minimumSymbols, depth, method) ==
    [minimumSymbols |-> minimumSymbols, minimumObservations |-> 3, depth |-> depth,
     rollingWindow |-> 2, regimeWindow |-> 2, method |-> method, alpha |-> 5,
     trainingTenths |-> 7, minimumTrainRows |-> 1]

Case(file, catalog, req) == [file |-> file, long |-> FALSE, catalog |-> catalog, request |-> req]

Price ==
    [EURGBP |-> <<2, 3, 5, 4, 3>>, EURUSD |-> <<4, 6, 9, 8, 6>>,
     GBPUSD |-> <<2, 3, 2, 3, 4>>, USDJPY |-> <<7, 7, 8, 9, 9>>]

\* Files of n rows with a hole wherever holes has the row and the symbol.
PanelWith(n, symbols, holes) ==
    [t \in 1 .. n |-> [at |-> t, price |-> [s \in symbols |->
        IF <<t, s>> \in holes THEN NoValue ELSE Price[s][t]]]]

Holes(n, symbols) == SUBSET ((1 .. n) \X symbols)

Three == {"EURGBP", "EURUSD", "GBPUSD"}

Full == PanelWith(5, DOMAIN Price, {})

Shuffled ==
    <<[at |-> 2, symbol |-> "EURUSD", close |-> 4], [at |-> 1, symbol |-> "EURUSD", close |-> 3],
      [at |-> 1, symbol |-> "GBPUSD", close |-> 2], [at |-> 3, symbol |-> "GBPUSD", close |-> 2],
      [at |-> 3, symbol |-> "EURUSD", close |-> 5], [at |-> 2, symbol |-> "GBPUSD", close |-> 1]>>

MCInputs ==
    {Case(PanelWith(4, Three, holes), INITIAL_RELATIONSHIPS, Request(2, 1, "fdr_bh")) :
        holes \in Holes(4, Three)}
    \cup {Case(PanelWith(3, DOMAIN Price, holes), INITIAL_RELATIONSHIPS, Request(3, 1, "holm")) :
        holes \in Holes(3, DOMAIN Price)}
    \cup {Case(Full, Repeating, Request(2, 1, method)) :
        method \in Methods}
    \cup {Case(Full, Layered, Request(2, depth, "fdr_bh")) : depth \in -1 .. 5}
    \cup {Case(Full, Unclosed, Request(2, 1, "fdr_bh")),
          Case(Full \o <<Full[2]>>, Layered, Request(2, 1, "fdr_bh")),
          Case(Reverse(Full), INITIAL_RELATIONSHIPS, Request(2, 1, "fdr_bh")),
          Case(Full, INITIAL_RELATIONSHIPS, Request(1, 1, "fdr_bh")),
          Case(Full, INITIAL_RELATIONSHIPS, [Request(2, 1, "fdr_bh") EXCEPT !.minimumObservations = 2]),
          Case(Full, INITIAL_RELATIONSHIPS, [Request(2, 1, "fdr_bh") EXCEPT !.rollingWindow = 1]),
          Case(Full, INITIAL_RELATIONSHIPS, [Request(2, 1, "fdr_bh") EXCEPT !.regimeWindow = 1]),
          [Case(Shuffled, INITIAL_RELATIONSHIPS, Request(2, 1, "fdr_bh")) EXCEPT !.long = TRUE],
          [Case(Append(Shuffled, Shuffled[1]), INITIAL_RELATIONSHIPS, Request(2, 1, "fdr_bh"))
             EXCEPT !.long = TRUE]}

-----------------------------------------------------------------------------
(* The study of a relationship                                             *)

Symbols == {"XAUEUR", "XAUUSD", "EURUSD"}

Broker == {"XAU/EUR", "XAUUSD", "XAUUSD.", "EURUSD", "GOLD"}

MCNormalOf ==
    [n \in Symbols \cup Broker |->
        CASE n \in {"XAU/EUR", "XAUEUR"} -> "xaueur" [] n \in {"XAUUSD", "XAUUSD."} -> "xauusd"
          [] n = "EURUSD" -> "eurusd" [] n = "GOLD" -> "gold"]

MCAliasesOf ==
    [s \in Symbols |-> CASE s = "XAUUSD" -> <<"gold", "xau">> [] s = "XAUEUR" -> <<"xaueur", "xau/eur">>
                         [] s = "EURUSD" -> <<"eurusd", "eur/usd">>]

MCContainedIn ==
    [n \in Broker |-> CASE n = "XAU/EUR" -> {"xau", "xau/eur"} [] n = "GOLD" -> {"gold"}
                        [] n = "EURUSD" -> {"eurusd"} [] OTHER -> {}]

Study(configured) ==
    [required |-> <<"EURUSD", "XAUEUR", "XAUUSD">>, target |-> "XAUEUR", configured |-> configured]

\* Nothing is configured, or the gold price is: as itself, or by mistake as the
\* target.
MCStudies == {Study(<<>>)} \cup {Study([s \in {"XAUUSD"} |-> name]) : name \in {"GOLD", "XAU/EUR"}}

Listing(available, traded) == [available |-> available, traded |-> traded]

Always(available) == Listing(available, [n \in Range(available) |-> 1 .. LastBar])

\* Every market on one catalogue, and catalogues with names that are missing,
\* published twice, or found by an alias only.
MCTerminals ==
    {Listing(<<"XAU/EUR", "XAUUSD", "EURUSD">>, traded) :
        traded \in [{"XAU/EUR", "XAUUSD", "EURUSD"} -> SUBSET (1 .. LastBar)]}
    \cup {Always(<<"EURUSD", "GOLD", "XAU/EUR">>), Always(<<"EURUSD", "XAU/EUR", "GOLD">>),
          Always(<<"EURUSD", "XAU/EUR">>), Always(<<"GOLD", "XAUUSD">>),
          Always(<<"XAUUSD", "XAUUSD.", "XAU/EUR", "EURUSD">>)}
===============================================================================
