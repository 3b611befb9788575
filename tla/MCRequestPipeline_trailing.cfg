SPECIFICATION FairSpec
PROPERTY
    MalformedIsClientError
