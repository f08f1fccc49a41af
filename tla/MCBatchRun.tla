----------------------------- MODULE MCBatchRun -----------------------------
\* A provider with a fixed address and the custom one.  The requests: two
\* archives of one name, files below a common folder, files that share only
\* the root, nothing usable, nothing at all, and too much in two ways.
EXTENDS BatchRun

CONSTANTS none, blank, slashes, nokey

MCProviders == {"deepseek", "custom"}
MCModelList == [deepseek |-> <<"chat">>, custom |-> <<"any">>]
MCDefaultUrl == [deepseek |-> "deepseek.com", custom |-> "localhost"]
MCEnvKey == [deepseek |-> "env", custom |-> None]
MCKeysFor == [deepseek |-> {"ds1"}, custom |-> {"own"}]
MCUrlsFor == [deepseek |-> {}, custom |-> {"gateway"}]

Upload(kind, path, stem, members) ==
    [kind |-> kind, path |-> path, stem |-> stem, members |-> members]
File(path) == Upload("source", path, "", << >>)
Archive(stem, members) == Upload("zip", << >>, stem, members)
Other(kind) == Upload(kind, << >>, "", << >>)
Request(streaming, naming, uploads) ==
    [streaming |-> streaming, naming |-> naming, uploads |-> uploads]

MCRequests ==
    {Request(TRUE, "suffix", <<Archive("p", << <<"m.py">> >>), Other("invalid"),
                               Archive("p", << <<"m.py">> >>)>>),
     Request(FALSE, "same", <<File(<<"/", "w", "a", "x.py">>), File(<<"/", "w", "b", "x.py">>)>>),
     Request(FALSE, "subdir", <<File(<<"/", "a", "x.py">>), File(<<"/", "b", "x.py">>)>>),
     Request(FALSE, "same", <<File(<<"/", "a", "x.py">>), Other("rejected_zip")>>),
     Request(TRUE, "same", <<Other("oversize"), Other("bad_zip"), Other("unsupported")>>),
     Request(TRUE, "same", << >>),
     Request(TRUE, "same", <<Archive("p", << <<"a.py">>, <<"b.py">>, <<"c.py">>, <<"d.py">> >>)>>),
     Request(FALSE, "same", [i \in 1..4 |-> Other("invalid")])}
=============================================================================
