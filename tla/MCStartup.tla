------------------------------- MODULE MCStartup -------------------------------
EXTENDS Startup

MCNames == {"dev", "nfo", "tv", "."}
MCOsNames == MCNames \cup {"\\xff"}
MCNameRank == "." :> 0 @@ "dev" :> 1 @@ "nfo" :> 2 @@ "tv" :> 3
MCGroups == {"viewers", "devs"}
MCGlobs == {"dev", "nfo", "n*", "**"}
MCSegmentMatch ==
  {<<"dev", "dev">>, <<"nfo", "nfo">>, <<"n*", "nfo">>} \cup {<<"**", n>> : n \in MCNames}
MCDecoded == [n \in MCNames |-> n]

MCTrees == {
  <<"dev">> :> "dir" @@ <<"dev", "nfo">> :> "file" @@ <<"dev", "tv">> :> "dir"
    @@ <<"dev", "tv", "nfo">> :> "file"
    @@ <<"tv">> :> "dir" @@ <<"tv", "dev">> :> "dir" @@ <<"tv", "dev", "nfo">> :> "dir"
    @@ <<"tv", "dev", "nfo", "tv">> :> "file" @@ <<"tv", "\\xff">> :> "file",
  <<"dev">> :> "link" @@ <<"nfo">> :> "dir" @@ <<"nfo", "dev">> :> "dir"
    @@ <<"nfo", "nfo">> :> "dir" @@ <<"tv">> :> "dir" @@ <<"tv", "nfo">> :> "file"}

Raw(segments) == [forbidden |-> FALSE, segments |-> segments]
NoDeny(segments) == [path |-> Raw(segments), deny |-> <<>>]
Granted(group, entries) == [group |-> group, delete |-> TRUE, allow |-> entries]
Block(allow, deny, grants) == [allow |-> allow, deny |-> deny, grants |-> grants]

\* "/tv/dev", whose parent nothing allows.
Nested == Granted("viewers", <<NoDeny(<<Empty, "tv", "dev">>)>>)

MCBlocks == {
  Block(<<Raw(<<Empty, "dev">>)>>, <<Raw(<<"n*">>)>>, <<Nested>>),
  Block(<<Raw(<<Empty, Empty>>)>>, <<Raw(<<"dev", "**", "nfo">>)>>,
        <<Granted("devs", <<[path |-> Raw(<<Dot, "tv">>), deny |-> <<Raw(<<"dev">>)>>]>>)>>),
  Block(<<Raw(<<Empty, Empty>>), Raw(<<".">>)>>, <<>>, <<Nested, Nested>>),
  \* No allow entry for "devs", or none at all.
  Block(<<>>, <<>>, <<Nested>>),
  Block(<<>>, <<>>, <<>>)}

MCRefusedBlocks == {
  Block(<<Raw(<<"tv">>), Raw(<<"tv">>)>>, <<>>, <<>>),
  Block(<<Raw(<<"tv", Empty>>)>>, <<>>, <<>>),
  Block(<<>>, <<Raw(<<Empty, Empty>>)>>, <<>>),
  Block(<<[forbidden |-> TRUE, segments |-> <<"tv">>]>>, <<>>, <<>>),
  Block(<<>>, <<>>, <<Granted("viewers", <<>>)>>),
  Block(<<>>, <<>>, <<Granted("viewers", <<NoDeny(<<"tv", DotDot>>)>>)>>)}

MCUrls == [scheme : {"https", "http", "other"}, loopback : BOOLEAN, callback : BOOLEAN]
Oidc(redirect, secure, key) ==
  [issuer |-> [scheme |-> "https", loopback |-> FALSE, callback |-> FALSE],
   clientBlank |-> FALSE, redirectUri |-> redirect, cookieSecure |-> secure, key |-> key]
MCOidcs ==
  {Oidc(url, secure, key) :
     url \in MCUrls, secure \in {Absent, TRUE, FALSE}, key \in {Absent, "short", "long"}}
GoodOidc == Oidc([scheme |-> "https", loopback |-> FALSE, callback |-> TRUE], TRUE, "long")

ConfigText(oidcBlock, accessBlock) ==
  [format |-> "yaml", sharedRoot |-> "directory", listenAddress |-> Absent,
   oidc |-> oidcBlock, access |-> accessBlock]
AnyBlock == Block(<<Raw(<<Empty, "dev">>)>>, <<>>, <<Nested>>)

MCTexts ==
  {ConfigText(GoodOidc, b) : b \in MCBlocks \cup MCRefusedBlocks \cup {Absent}}
    \cup {ConfigText(o, AnyBlock) : o \in MCOidcs \cup {Absent}}
    \cup {ConfigText(Absent, Absent),
          [ConfigText(GoodOidc, AnyBlock) EXCEPT !.sharedRoot = "missing"],
          [ConfigText(GoodOidc, AnyBlock) EXCEPT !.listenAddress = "blank"],
          [ConfigText(GoodOidc, AnyBlock) EXCEPT !.format = "neither"]}

MCFileNames == {"config.yaml", "config.json", "other", "--check-access", "--groups", "viewers", ","}
MCDefaultFiles == <<"config.yaml", "config.json">>
MCGroupsOf ==
  [f \in MCFileNames |-> CASE f = "," -> {} [] f = "viewers" -> {"viewers"} [] OTHER -> {}]
    @@ "devs,viewers" :> {"devs", "viewers"}

Files(yaml, json) ==
  [f \in MCFileNames |->
     CASE f = "config.yaml" -> yaml [] f = "config.json" -> json [] OTHER -> Absent]
Start(args, files, debug, disable) ==
  [args |-> args, files |-> files, debug |-> debug, disableAuth |-> disable,
   bindable |-> TRUE]

CheckArgs == <<"--check-access", "--groups", "viewers">>
MCArgs == UNION {[1..n -> {"--check-access", "--groups", "viewers", ",", "config.yaml"}] : n \in 0..4}

MCStartups ==
  {Start(args, Files(text, Absent), debug, disable) :
     args \in {<<>>, CheckArgs}, text \in MCTexts, debug \in BOOLEAN, disable \in BOOLEAN}
  \cup {Start(args, Files(ConfigText(GoodOidc, AnyBlock), Absent), FALSE, FALSE) : args \in MCArgs}
  \cup {Start(<<>>, Files(Absent, json), FALSE, FALSE) :
          json \in {Absent, ConfigText(GoodOidc, AnyBlock),
                    [ConfigText(GoodOidc, AnyBlock) EXCEPT !.format = "json"]}}
  \cup {[Start(<<>>, Files(ConfigText(GoodOidc, AnyBlock), Absent), FALSE, FALSE)
           EXCEPT !.bindable = FALSE]}
================================================================================
