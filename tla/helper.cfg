\* Two helpers that find or make one bucket, beside somebody else; in one kind of
\* region all of them may be told that they made it.  Git writes two lines to one of
\* them, and none to the other.
CONSTANTS
    Helpers = {h1, h2}
    RepeatAnswers = {TRUE, FALSE}
    Nobody = Nobody
    Found = Found
    Others = Others
    MaxLines <- MCMaxLines
    h1 = h1
    h2 = h2
SPECIFICATION HelperSpec
INVARIANT OnlyMakersConfigure
INVARIANT LateLinesAreRefused
PROPERTY SignalEndsHelper
CHECK_DEADLOCK FALSE
