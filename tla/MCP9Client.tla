------------------------------ MODULE MCP9Client -----------------------------
(***************************************************************************)
(* Values for the constants of P9Client.  Lengths are counted modulo 8 and *)
(* characters are small numbers, so that one may be taken for a length.    *)
(***************************************************************************)
EXTENDS P9Client

Name == <<1, 0>>
LongName == <<1, 0, 1, 1, 0, 0, 1, 1, 2>>            \* cut to a length of 1
FullName == <<2, 0, 1, 1, 0, 0, 1, 1>>               \* cut to a length of 0
ManyNames == [i \in 1..9 |-> <<1>>]                  \* cut to 1
SmallStat == [fixed |-> 3, strings |-> <<<<1>>, << >>, << >>, <<1>>>>]       \* 7 cells
BigStat == [fixed |-> 3, strings |-> <<<<1>>, <<1>>, << >>, <<1>>>>]         \* 8 cells, cut to 0
BiggerStat == [fixed |-> 3, strings |-> <<<<1, 1, 0, 0, 2>>, <<1>>, <<0, 1>>, <<1, 1>>>>]    \* 15 cells, cut to 7
OddStat == [fixed |-> 3, strings |-> <<LongName, << >>, << >>, << >>>>]      \* 14 cells, cut to 6, and a name cut

Ask(type, values) == [type |-> type, values |-> values]

RichRequests == {
  Ask("Tversion", <<5, Name>>), Ask("Tauth", <<0, Name, << >>>>), Ask("Topen", <<1, 0>>),
  Ask("Tread", <<1, 0, 9>>), Ask("Tremove", <<1>>), Ask("Tflush", <<0>>), Ask("Twalk", <<0, 1, <<Name>>>>), Ask("Twalk", <<0, 1, ManyNames>>),
  Ask("Tcreate", <<1, LongName, 4, 0>>), Ask("Tattach", <<0, 0, FullName, << >>>>), Ask("Tstat", <<1>>),
  Ask("Twstat", <<1, SmallStat>>), Ask("Twstat", <<1, BigStat>>), Ask("Twstat", <<1, BiggerStat>>),
  Ask("Twrite", <<1, 0, LongName>>)}

\* with three tags, the fourth call has the tag of the first
TagAsks == <<RichRequests, {Ask("Tstat", <<1>>)}, {Ask("Tclunk", <<1>>)},
             {Ask("Tversion", <<5, Name>>), Ask("Tclunk", <<1>>)}>>

SomeAnswers == [
  Tclunk   |-> {<< >>},
  Tversion |-> {<<0, Name>>, <<5, Name>>},
  Twalk    |-> {<<<<6>>>>, <<[i \in 1..9 |-> 6]>>},
  Tauth    |-> {<<6>>},
  Topen    |-> {<<6, 0>>},
  Tread    |-> {<<LongName>>},
  Tremove  |-> {<< >>},
  Tflush   |-> {<< >>},
  Tcreate  |-> {<<6, 0>>},
  Tattach  |-> {<< >>},
  Tstat    |-> {<<SmallStat>>, <<BigStat>>, <<BiggerStat>>, <<OddStat>>},
  Twstat   |-> {<< >>},
  Twrite   |-> {<<9>>}]

==============================================================================
