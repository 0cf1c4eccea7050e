------------------------------- MODULE MCPage --------------------------------
(* Six ways to fill in the form, what may be typed by hand, one sample.     *)
EXTENDS Page

Plain == [id |-> "scalar", fields |-> {Field("Title", "scalar"), Field("CreatedAt", "time")},
          ops |-> {"get", "list"}, durable |-> TRUE, enum |-> FALSE, events |-> FALSE,
          xproc |-> FALSE, store |-> Undecided, firm |-> "prefer"]

MCForms ==
    {Plain,
     [Plain EXCEPT !.store = "memory"],
     [Plain EXCEPT !.store = "memory", !.durable = FALSE, !.events = TRUE, !.xproc = TRUE],
     [Plain EXCEPT !.store = "postgres-sqlc", !.id = "uuid"],
     [Plain EXCEPT !.store = "postgres-pgx", !.enum = TRUE, !.firm = "required"],
     [Plain EXCEPT !.store = "memory", !.firm = "required"]}

NoStore == << SpecForm(<<>>, {}) >>
HandWritten == << SpecForm([store |-> {"durable", "cross-process"}], {Field("ID", "uuid")}) >>
Unbalanced == << [head |-> "unbalanced"] >>
Careful == << PolicyForm([maintenance |-> 9], <<>>) >>
NoSuchBus == << PolicyForm(<<>>, "nats-bus" :> "weak") >>

MCTyped == [spec |-> {NoStore, HandWritten, Unbalanced},
            policy |-> {Careful, NoSuchBus}, tiles |-> {}]
MCSamples ==
    { << SpecForm([store |-> {"durable"}], {Field("ID", "scalar")}),
         PolicyForm(<<>>, "sqlite-sqlc" :> "required") >> }

MCTexts == SentTexts
=============================================================================
