------------------------ MODULE MCOpenAICompatClient ------------------------
\* Instance of OpenAICompatClient for TLC.
EXTENDS OpenAICompatClient

\* No Retry-After that sleep accepts is negative; 120 is a minute.
MCRetryAfter == {-1, 0, 4, 120}
=============================================================================
