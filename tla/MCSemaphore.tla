----------------------------- MODULE MCSemaphore -----------------------------
EXTENDS Semaphore

CONSTANTS t1, t2, t3

MCThreads == {t1, t2, t3}

\* Empty, full, at the largest count, and two that are refused.
MCDescs == {<<0, 2>>, <<1, 1>>, <<0, 3>>, <<2, 1>>, <<0, 0>>}
MCReleases == 0..3

=============================================================================
