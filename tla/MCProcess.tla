----------------------------- MODULE MCProcess -----------------------------
(* An instance of Process for TLC, with the environments it may start in.   *)
EXTENDS Process

MCNumerals == [x \in {"-1", "0", "2", "70000"} |->
                 CASE x = "-1" -> -1 [] x = "0" -> 0 [] x = "2" -> 2 [] x = "70000" -> 70000]
MCTexts == {"info", "INFO", "verbose", "api", "worker", "production"}
MCLowered == [x \in MCTexts |-> IF x = "INFO" THEN "info" ELSE x]

\* Texts that have white space around them.
Padded == [x \in {" ", " key ", " url ", " 2", "0 ", " INFO", "worker ", " api", "good "} |->
             CASE x = " " -> "" [] x = " key " -> "key" [] x = " url " -> "url"
               [] x = " 2" -> "2" [] x = "0 " -> "0" [] x = " INFO" -> "INFO"
               [] x = "worker " -> "worker" [] x = " api" -> "api" [] x = "good " -> "good"]
Plain == MCTexts \cup DOMAIN MCNumerals
           \cup {"", "key", "url", "good", "blank", "gone", "many", "staging", "scheduler"}
MCTrimmed == [x \in Plain \cup DOMAIN Padded |-> IF x \in Plain THEN x ELSE Padded[x]]

\* Everything is unset but what is said.
Environment0(given, args) ==
    [vars |-> [n \in Names |-> IF n \in DOMAIN given THEN given[n] ELSE Unset],
     files |-> [f \in {"good", "blank", "gone"} |->
                  CASE f = "good" -> " url " [] f = "blank" -> " "
                    [] f = "gone" -> Unreadable],
     args |-> args]

Given == [DATABASE_URL |-> "url", EVICTOR_ENCRYPTION_KEY |-> " key "]
With(name, text) == [n \in DOMAIN Given \cup {name} |-> IF n = name THEN text ELSE Given[n]]

\* Environments in which the API is started, or the worker.
Accepted ==
    {Environment0([DATABASE_URL_FILE |-> "good ", EVICTOR_ENCRYPTION_KEY |-> "key",
                   WORKER_COUNT |-> " 2", EVICTOR_ROLE |-> "worker"], <<" api">>),
     Environment0(With("LOG_LEVEL", " INFO"), <<"worker ">>),
     Environment0(With("EVICTOR_ROLE", "worker "), <<>>)}

\* Load lets any positive port pass, and Listen finds out.
Unlistenable == {Environment0(With("PORT", "70000"), <<>>)}

\* Environments in which Run ends with an error, early or at the argument.
Refused ==
    {Environment0([DATABASE_URL_FILE |-> f,
                   EVICTOR_ENCRYPTION_KEY |-> "key"], <<>>) : f \in {"blank", "gone"}}
    \cup {Environment0(With(n, x), <<>>) : n \in Counts, x \in {"-1", "0", "many"}}
    \cup {Environment0(With("PORT", "0 "), <<"worker">>),
          Environment0(With("LOG_LEVEL", "verbose"), <<>>),
          Environment0(With("EVICTOR_ENV", "staging"), <<>>),
          Environment0(With("EVICTOR_ROLE", "scheduler"), <<"api">>),
          Environment0(Given, <<"scheduler">>),
          Environment0(With("DATABASE_URL", " "), <<>>)}

MCEnvironments == Accepted \cup Unlistenable \cup Refused
=============================================================================
