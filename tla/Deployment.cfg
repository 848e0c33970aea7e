CONSTANTS
    Releases = {1, 2, 3, 4, 5, 6, 7, 8, 9, 10, 11, 12, 13, 14, 15, 16, 17, 18, 19, 20}
    Watched = {"token", "sessions"}
    Varied = {"REDIS_URI", "SERVICE_UNBLOCK_ACCOUNT_URL"}
SPECIFICATION Spec
INVARIANTS RefusedOnlyByRows LatestFitsEntities TokenRowsComplete Whole
PROPERTY Serves
